---- MODULE Spec2Model ----
(***************************************************************************)
(* Verification model of the market-data pipeline:                         *)
(*   - the k-way merger  (merged_book_generation.cpp,                      *)
(*                        merge_files_for_symbol_by_timestamp)             *)
(*   - the consolidated snapshot builder (process_merged_tops.cpp, main)   *)
(*   - the trade-bar aggregator (parse_book_fills.cpp, main)               *)
(*   - the quote-bar aggregators (parse_book_tops.cpp, parse_merged_tops)  *)
(*   - the decoders of the tops record (TopsRecord and BookTop layouts)    *)
(*   - the correlation engines (price_correlation.cpp,                     *)
(*                              correlation_generation.cpp)                *)
(*   - the impact calculators (impact_base.cpp, merged_impact_base.cpp)    *)
(*   - the overall score, the worker pool and the shared caches of the     *)
(*     correlation engines                                                 *)
(* Each component has its own specification over the shared variables:     *)
(*   Spec      the k-way merger                                            *)
(*   SnapSpec  the snapshot builder                                        *)
(*   FillsSpec the trade-bar aggregator                                    *)
(*   QuoteSpec the quote-bar aggregators (parse_book_tops.cpp per venue,   *)
(*             parse_merged_tops.cpp for the merged file)                  *)
(*   CodecSpec the decoders of the 88-byte tops record                     *)
(*   CorrSpec  the two correlation engines over a pair of bar files        *)
(*   ImpactSpec the impact calculators (impact_base.cpp per venue,         *)
(*             merged_impact_base.cpp for the merged file)                 *)
(*   OverallSpec the overall score of a symbol pair (both engines)         *)
(*   PoolSpec  the worker pool of compute_overall_correlations_cpp         *)
(*   CacheSpec threads calling file_exists_with_cache and                  *)
(*             read_file_mmap_cached                                       *)
(* and MergeOrSnapSpec, DiskFullSpec, RerunSpec, MergeLiveSpec and         *)
(* PoolLiveSpec run these components from other initial states or under    *)
(* fair scheduling.                                                        *)
(***************************************************************************)
EXTENDS Integers, Sequences, FiniteSets, TLC

\* ------------------------------------------------------------------ bounds
MaxInputs == 2      \* venue folders handed to one merge
MaxTotalRecs == 3   \* complete records over all input files of one merge
MaxTs == 2          \* timestamps are drawn from 1..MaxTs
MaxSnapEntries == 3 \* entries of the merged file read by the snapshot builder
MaxFeeds == 2       \* venues (feed ids 1..MaxFeeds) quoting in that file
MaxFills == 3       \* DataRecords in the fills file of the trade-bar aggregator
MaxTops == 3        \* tops records in the input of a quote-bar aggregator
MaxBars == 21       \* bars in a bar file handed to the correlation engines
MaxBookTops == 3    \* book tops in the input of an impact calculator
MaxCorrSteps == 1   \* component correlations are drawn from k / MaxCorrSteps,
                    \* k in -MaxCorrSteps..MaxCorrSteps
MaxSymbols == 9     \* valid symbols handed to the worker pool
MaxThreads == 2     \* threads of the worker pool
MaxReaders == 2     \* threads calling the cached readers
MaxCalls == 2       \* calls of one such thread

VARIABLES
    \* --- k-way merger ---
    files,                  \* the venue files on disk, by venue folder position
    pc,                     \* position in merge_files_for_symbol_by_timestamp
    source_files_to_process,\* venues whose file passed the existence/size test
    i,                      \* index of the open loop (1-based)
    file_streams,           \* opened inputs: [venue, pos], pos = records consumed
    first_valid_header_data_opt,
    min_heap,               \* set of HeapItem
    total_records_merged,   \* uint32_t; stays far below 2^32 here
    merged_file,            \* the output file: [state, header, recs]; state is
                            \* "absent", "blocked" (cannot be created), "full"
                            \* (no room for records), "open", "openfull",
                            \* "failed" (a write failed) or "closed"
    result,                 \* what the function returned
    \* --- snapshot builder ---
    snap_pc,                \* position in main of process_merged_tops
    f_in,                   \* the input file: "noopen", "shorthdr" or "ok"
    entry_buffer,           \* the entry read last
    latest_venue_quotes,    \* feed_id -> the venue's three levels
    last_written_bids,
    last_written_asks,
    total_input_records_read,
    num_snapshots_written,
    f_out,                  \* the output file: [state, header, snapshots]
    exit_code,
    \* --- trade-bar aggregator ---
    fills_pc,               \* position in main of parse_book_fills
    input_file,             \* [state, number_of_fills, records]; state is
                            \* "noopen", "shorthdr" or "ok"
    output_file,            \* [state, bars]
    fill_i,                 \* loop index i of read_data_and_generate_bars
    current_bar_tp_utc,     \* whole seconds since the epoch
    bar_open_price,
    bar_high_price,
    bar_low_price,
    bar_close_price,
    bar_total_volume,       \* int32_t, as a bit pattern of two 16-bit halves
    fills_exit_code,
    \* --- quote-bar aggregators ---
    quote_pc,               \* position in process_file / process_merged_file
    tops_file,              \* [variant, state, number_of_tops, records]; variant
                            \* is "venue" (parse_book_tops) or "merged"
    timestamps,             \* std::vector<uint64_t>
    quote_bid_prices,       \* bid_prices, per level: std::vector<double>
    quote_ask_prices,       \* ask_prices
    last_bid_timestamps,    \* per level
    last_ask_timestamps,
    bar_files,              \* <<side, level>> -> [state, bars]
    series_done,            \* the <<side, level>> whose create_and_store_bars returned
    \* --- tops record decoders ---
    tops_bytes,             \* an 88-byte record on disk, as 22 little-endian
                            \* 32-bit words
    tops_record,            \* the record read into TopsRecord (level blocks)
    book_top,               \* the record read into BookTop (field arrays)
    \* --- correlation engines ---
    corr_file1,             \* the first bar file: its 40-byte records, each as
                            \* five 8-byte slots
    corr_file2,             \* the second bar file
    trimmed_prices,         \* what trim_to_same_length returned (single-pair tool)
    single_pair_result,     \* calculate_file_correlation of price_correlation.cpp
    batch_result,           \* calculate_file_correlation of correlation_generation.cpp
    engines_run,            \* the engines that have returned
    \* --- impact calculators ---
    impact_pc,              \* position in main
    impact_input,           \* [variant, state, number_of_tops, records, tail]
    target_quantity,        \* argv: 1..UINT32_MAX
    impact_output,          \* [state, room, contents]: room is the number of
                            \* records the device still takes
    last_written_exec_result,
    first_record_to_write,
    records_written,
    book_tops_processed,
    impact_exit_code,
    \* --- overall score ---
    overall_engine,         \* "single" (price_correlation.cpp) or "batch"
                            \* (correlation_generation.cpp)
    correlations_list,      \* std::vector<std::optional<double>>, 7 components
    overall_correlation,    \* what calculate_weighted_correlation returned
    overall_row,            \* the rows the batch engine pushed for the pair
    \* --- worker pool ---
    pool_pc,                \* position in compute_overall_correlations_cpp
    valid_symbols,          \* valid_symbols.size(); a symbol is its position
    flat_symbols,           \* symbols whose seven series are constant
    num_threads,
    current_pair,           \* std::atomic<size_t>
    completed_pairs,        \* std::atomic<size_t>
    workers,                \* thread -> [pc, batch_start, batch_end, pair_idx,
                            \* local_results, local_completed, evaluated]
    results,                \* std::vector<CorrelationResult>
    \* --- shared caches ---
    disk_files,             \* path -> number of 40-byte records (-1: no file)
    file_exists_cache,      \* std::map<std::string, bool>
    file_data_cache,        \* std::map<std::string, std::vector<double>>
    readers,                \* thread -> [pc, path, exists, prices, calls]
    io_log                  \* path -> [probes, loads, inserts] so far

mergeVars == <<files, pc, source_files_to_process, i, file_streams,
               first_valid_header_data_opt, min_heap, total_records_merged,
               merged_file, result>>

snapVars == <<snap_pc, f_in, entry_buffer, latest_venue_quotes, last_written_bids,
              last_written_asks, total_input_records_read, num_snapshots_written,
              f_out, exit_code>>

fillsVars == <<fills_pc, input_file, output_file, fill_i, current_bar_tp_utc,
               bar_open_price, bar_high_price, bar_low_price, bar_close_price,
               bar_total_volume, fills_exit_code>>

quoteVars == <<quote_pc, tops_file, timestamps, quote_bid_prices, quote_ask_prices,
               last_bid_timestamps, last_ask_timestamps, bar_files, series_done>>

codecVars == <<tops_bytes, tops_record, book_top>>

corrVars == <<corr_file1, corr_file2, trimmed_prices, single_pair_result, batch_result,
              engines_run>>

impactVars == <<impact_pc, impact_input, target_quantity, impact_output,
                last_written_exec_result, first_record_to_write, records_written,
                book_tops_processed, impact_exit_code>>

overallVars == <<overall_engine, correlations_list, overall_correlation, overall_row>>

poolVars == <<pool_pc, valid_symbols, flat_symbols, num_threads, current_pair,
              completed_pairs, workers, results>>

cacheVars == <<disk_files, file_exists_cache, file_data_cache, readers, io_log>>

vars == <<mergeVars, snapVars, fillsVars, quoteVars, codecVars, corrVars, impactVars,
          overallVars, poolVars, cacheVars>>

\* uint32_t / int32_t values are kept as two 16-bit halves [hi, lo]
LimbBase == 65536
U32(hi, lo) == [hi |-> hi, lo |-> lo]

NoBarFile == [state |-> "absent", bars |-> <<>>]
BlockedBarFile == [state |-> "blocked", bars |-> <<>>]
NoFillsFile == [state |-> "none", number_of_fills |-> 0, records |-> <<>>]
PlusInfinity == "+inf"
MinusInfinity == "-inf"

\* parse_book_fills.cpp lines 96-101: the locals before the first fill
FillsLocalsInitial ==
    /\ fill_i = 0
    /\ current_bar_tp_utc = 0
    /\ bar_open_price = 0
    /\ bar_high_price = MinusInfinity
    /\ bar_low_price = PlusInfinity
    /\ bar_close_price = 0
    /\ bar_total_volume = U32(0, 0)

FillsIdle ==
    /\ fills_pc = "idle"
    /\ input_file = NoFillsFile
    /\ output_file = NoBarFile
    /\ FillsLocalsInitial
    /\ fills_exit_code = -1

\* the six bar series: bid and ask bars of the levels 1..3
Series == {"bid", "ask"} \X (1..3)
NoTopsFile == [variant |-> "none", state |-> "none", number_of_tops |-> 0, records |-> <<>>]

\* the vectors and last-timestamp arrays before any record is read
QuoteLocalsInitial ==
    /\ timestamps = <<>>
    /\ quote_bid_prices = <<<<>>, <<>>, <<>>>>
    /\ quote_ask_prices = <<<<>>, <<>>, <<>>>>
    /\ last_bid_timestamps = <<0, 0, 0>>
    /\ last_ask_timestamps = <<0, 0, 0>>
    /\ series_done = {}

QuoteIdle ==
    /\ quote_pc = "idle"
    /\ tops_file = NoTopsFile
    /\ QuoteLocalsInitial
    /\ bar_files = [s \in Series |-> NoBarFile]

\* the correlation engines and the impact calculators before they run
NoCorrelation == [has_value |-> FALSE, pairs |-> <<>>]
CorrIdle ==
    /\ corr_file1 = <<>>
    /\ corr_file2 = <<>>
    /\ trimmed_prices = <<<<>>, <<>>>>
    /\ single_pair_result = NoCorrelation
    /\ batch_result = NoCorrelation
    /\ engines_run = {}

NoImpactInput ==
    [variant |-> "none", state |-> "none", number_of_tops |-> 0, records |-> <<>>,
     tail |-> FALSE]
NoImpactOutput == [state |-> "absent", room |-> 0, contents |-> <<>>]
ImpactIdle ==
    /\ impact_pc = "idle"
    /\ impact_input = NoImpactInput
    /\ target_quantity = 1
    /\ impact_output = NoImpactOutput
    /\ last_written_exec_result = <<>>
    /\ first_record_to_write = TRUE
    /\ records_written = 0
    /\ book_tops_processed = 0
    /\ impact_exit_code = -1

\* the overall score, the worker pool and the caches before they run
\* (an optional is <<>> or <<v>>: a pair is neither)
NotRun == <<"not", "run">>
OverallIdle ==
    /\ overall_engine = "none"
    /\ correlations_list = <<>>
    /\ overall_correlation = NotRun
    /\ overall_row = <<>>

PoolIdle ==
    /\ pool_pc = "idle"
    /\ valid_symbols = 0
    /\ flat_symbols = {}
    /\ num_threads = 0
    /\ current_pair = 0
    /\ completed_pairs = 0
    /\ workers = <<>>
    /\ results = <<>>

CacheIdle ==
    /\ disk_files = <<>>
    /\ file_exists_cache = <<>>
    /\ file_data_cache = <<>>
    /\ readers = <<>>
    /\ io_log = <<>>

NotRead == <<>>
CodecIdle ==
    /\ tops_bytes = <<>>
    /\ tops_record = NotRead
    /\ book_top = NotRead

\* ------------------------------------------------------------- data model
Venues == 1..MaxInputs
Timestamps == 1..MaxTs

\* Header (24 bytes): feed_id, dateint, count, symbol_idx
NullHeader == [feed_id |-> 0, dateint |-> 0, count |-> 0, symbol_idx |-> 0]
NoHeader == [feed_id |-> -1, dateint |-> -1, count |-> -1, symbol_idx |-> -1]

\* The header stored in venue v's file: every venue has its own feed_id and
\* the files of one merge describe the same symbol.
HeaderOf(v, n) == [feed_id |-> v, dateint |-> 20240100 + v, count |-> n, symbol_idx |-> 42]

\* What can be on disk for one venue.  "missing": no file; "small": a file
\* shorter than a header; "noopen": the ifstream does not open; "shorthdr":
\* the header read returns fewer than 24 bytes; "ok": a header followed by
\* Len(ts) complete records and, when tail, a trailing partial record.
SkippedContents == {[status |-> s, ts |-> <<>>, tail |-> FALSE] :
                        s \in {"missing", "small", "noopen", "shorthdr"}}
\* the files holding exactly n complete records
ContentsOfLen(n) ==
    {[status |-> "ok", ts |-> s, tail |-> b] : s \in [1..n -> Timestamps], b \in BOOLEAN}
        \cup (IF n = 0 THEN SkippedContents ELSE {})

\* The contents of the files of venues 1..n holding at most budget complete
\* records in total.
Contents(budget) == UNION {ContentsOfLen(k) : k \in 0..budget}

RECURSIVE ContentTuples(_, _)
ContentTuples(n, budget) ==
    IF n = 0 THEN {<<>>}
    ELSE UNION {{Append(t, c) : t \in ContentTuples(n - 1, budget - k),
                                c \in ContentsOfLen(k)} : k \in 0..budget}

RECURSIVE TotalRecs(_)
TotalRecs(t) == IF t = <<>> THEN 0 ELSE Len(Head(t).ts) + TotalRecs(Tail(t))

\* The k-th record of venue v: its first 8 bytes are the timestamp, the
\* rest of the payload is opaque and identifies the record.
MkFile(v, c) ==
    [status |-> c.status,
     header |-> HeaderOf(v, Len(c.ts)),
     recs   |-> [k \in 1..Len(c.ts) |-> [ts |-> c.ts[k], data |-> <<v, k>>]],
     tail   |-> c.tail]

NoRecord == [ts |-> -1, data |-> <<>>]

\* as below, without the gcount test: a trailing partial record is returned
read_next_record_without_short_check(v, pos) ==
    IF pos < Len(files[v].recs) THEN files[v].recs[pos + 1]
    ELSE IF pos = Len(files[v].recs) /\ files[v].tail
         THEN [ts |-> 0, data |-> <<v, 0>>]
         ELSE NoRecord

\* read_next_record_with_timestamp_raw on venue v's stream after pos reads:
\* a full record or nullopt (NoRecord) at end of file or on a partial record.
read_next_record_with_timestamp_raw(v, pos) ==
    IF pos < Len(files[v].recs) THEN files[v].recs[pos + 1] ELSE NoRecord

\* the comparison of a max-heap
HeapItemLess(a, b) ==
    IF a.timestamp # b.timestamp THEN a.timestamp < b.timestamp ELSE FALSE

\* HeapItem::operator>
HeapItemGreater(a, b) ==
    IF a.timestamp # b.timestamp THEN a.timestamp > b.timestamp ELSE FALSE

\* std::priority_queue<HeapItem, ..., std::greater<HeapItem>>::top(): an
\* element that is not greater than any other; which one among equivalent
\* elements is not specified by the container.
HeapTops(h) == {x \in h : \A y \in h : ~HeapItemGreater(x, y)}

\* ----------------------------------------------------------------- merger
NoFile == [state |-> "absent", header |-> NoHeader, recs |-> <<>>]
BlockedFile == [state |-> "blocked", header |-> NoHeader, recs |-> <<>>]
\* a file on a device with room for the placeholder header and nothing more
FullFile == [state |-> "full", header |-> NoHeader, recs |-> <<>>]

MergeInputs ==
    /\ \E t \in ContentTuples(MaxInputs - 1, MaxTotalRecs) :
          \E c \in Contents(MaxTotalRecs - TotalRecs(t)) :
              files = [v \in Venues |-> MkFile(v, Append(t, c)[v])]
    /\ pc = "scan"
    /\ source_files_to_process = <<>>
    /\ i = 1
    /\ file_streams = <<>>
    /\ first_valid_header_data_opt = NoHeader
    /\ min_heap = {}
    /\ total_records_merged = 0
    /\ result = "running"

MergeInit ==
    /\ MergeInputs
    /\ merged_file \in {NoFile, BlockedFile}

\* lines 192-214: collect the venue files that exist and hold a header
ExistingLargeEnough(v) == files[v].status \notin {"missing", "small"}

RECURSIVE FilterVenues(_)
FilterVenues(v) ==
    IF v > MaxInputs THEN <<>>
    ELSE (IF ExistingLargeEnough(v) THEN <<v>> ELSE <<>>) \o FilterVenues(v + 1)

ScanVenues ==
    /\ pc = "scan"
    /\ source_files_to_process' = FilterVenues(1)
    /\ IF FilterVenues(1) = <<>>
       THEN pc' = "done" /\ result' = "nullopt"
       ELSE pc' = "open" /\ result' = result
    /\ UNCHANGED <<files, i, file_streams, first_valid_header_data_opt,
                   min_heap, total_records_merged, merged_file>>

\* lines 226-238: the input does not open or its header is short: log, continue
SkipInputAborts ==
    /\ pc' = "done"
    /\ result' = "nullopt"
    /\ UNCHANGED <<file_streams, first_valid_header_data_opt, min_heap>>

SkipInput ==
    UNCHANGED <<pc, result, file_streams, first_valid_header_data_opt, min_heap>>

\* the whole input is read and pushed at once
AddInputPushesAll(v) ==
    LET current_header == files[v].header
        current_file_idx == Len(file_streams) + 1
    IN  /\ first_valid_header_data_opt' =
               IF first_valid_header_data_opt = NoHeader
               THEN current_header ELSE first_valid_header_data_opt
        /\ file_streams' = Append(file_streams,
                                  [venue |-> v, pos |-> Len(files[v].recs)])
        /\ min_heap' = min_heap \cup
              {[timestamp |-> files[v].recs[k].ts, record_data |-> files[v].recs[k],
                file_index |-> current_file_idx,
                feed_id |-> current_header.feed_id] : k \in 1..Len(files[v].recs)}
        /\ UNCHANGED <<pc, result>>

\* lines 240-249: keep the stream, read its first record and push it
AddInput(v) ==
    LET current_header == files[v].header
        current_file_idx == Len(file_streams) + 1
        next_item == read_next_record_with_timestamp_raw(v, 0)
    IN  /\ first_valid_header_data_opt' =
               IF first_valid_header_data_opt = NoHeader
               THEN current_header ELSE first_valid_header_data_opt
        /\ IF next_item # NoRecord
           THEN /\ file_streams' = Append(file_streams, [venue |-> v, pos |-> 1])
                /\ min_heap' = min_heap \cup
                      {[timestamp |-> next_item.ts, record_data |-> next_item,
                        file_index |-> current_file_idx,
                        feed_id |-> current_header.feed_id]}
           ELSE /\ file_streams' = Append(file_streams, [venue |-> v, pos |-> 0])
                /\ min_heap' = min_heap
        /\ UNCHANGED <<pc, result>>

\* lines 223-250: one iteration of the open loop
OpenInput ==
    /\ pc = "open"
    /\ i <= Len(source_files_to_process)
    /\ IF files[source_files_to_process[i]].status \in {"noopen", "shorthdr"}
       THEN SkipInput
       ELSE AddInput(source_files_to_process[i])
    /\ i' = i + 1
    /\ UNCHANGED <<files, source_files_to_process, total_records_merged, merged_file>>

\* lines 252-254: nothing to merge
NothingToMergeLeavesFile ==
    /\ pc = "open"
    /\ i > Len(source_files_to_process)
    /\ min_heap = {} \/ first_valid_header_data_opt = NoHeader
    /\ pc' = "done"
    /\ result' = "nullopt"
    /\ merged_file' = IF merged_file.state = "blocked" THEN merged_file
                      ELSE [state |-> "closed", header |-> NullHeader, recs |-> <<>>]
    /\ UNCHANGED <<files, source_files_to_process, i, file_streams,
                   first_valid_header_data_opt, min_heap, total_records_merged>>

NothingToMerge ==
    /\ pc = "open"
    /\ i > Len(source_files_to_process)
    /\ min_heap = {} \/ first_valid_header_data_opt = NoHeader
    /\ pc' = "done"
    /\ result' = "nullopt"
    /\ UNCHANGED <<files, source_files_to_process, i, file_streams,
                   first_valid_header_data_opt, min_heap, total_records_merged,
                   merged_file>>

\* lines 256-261: the output file cannot be opened
CreateOutputFails ==
    /\ pc = "open"
    /\ i > Len(source_files_to_process)
    /\ ~(min_heap = {} \/ first_valid_header_data_opt = NoHeader)
    /\ merged_file.state = "blocked"
    /\ pc' = "done"
    /\ result' = "nullopt"
    /\ UNCHANGED <<files, source_files_to_process, i, file_streams,
                   first_valid_header_data_opt, min_heap, total_records_merged,
                   merged_file>>

\* the header of the first input is written in place of the placeholder
CreateOutputWritesFirstHeader ==
    /\ pc = "open"
    /\ i > Len(source_files_to_process)
    /\ ~(min_heap = {} \/ first_valid_header_data_opt = NoHeader)
    /\ merged_file.state # "blocked"
    /\ merged_file' = [state |-> IF merged_file.state = "full" THEN "openfull" ELSE "open",
                        header |-> first_valid_header_data_opt, recs |-> <<>>]
    /\ pc' = "merge"
    /\ UNCHANGED <<files, source_files_to_process, i, file_streams,
                   first_valid_header_data_opt, min_heap, total_records_merged,
                   result>>

\* lines 256-264: create the output and write the zero-filled placeholder
CreateOutput ==
    /\ pc = "open"
    /\ i > Len(source_files_to_process)
    /\ ~(min_heap = {} \/ first_valid_header_data_opt = NoHeader)
    /\ merged_file.state # "blocked"
    /\ merged_file' = [state |-> IF merged_file.state = "full" THEN "openfull" ELSE "open",
                        header |-> NullHeader, recs |-> <<>>]
    /\ pc' = "merge"
    /\ UNCHANGED <<files, source_files_to_process, i, file_streams,
                   first_valid_header_data_opt, min_heap, total_records_merged,
                   result>>

\* lines 270-271: the entry written for a popped item
MergedEntry(item) ==
    [original_feed_id |-> item.feed_id, record |-> item.record_data]

\* line 276: the item pushed for the next record of the popped item's input
NextHeapItemStaleHeader(current_item, next_item) ==
    [timestamp |-> next_item.ts, record_data |-> next_item,
     file_index |-> current_item.file_index,
     feed_id |-> files[file_streams[Len(file_streams)].venue].header.feed_id]

NextHeapItem(current_item, next_item) ==
    [timestamp |-> next_item.ts, record_data |-> next_item,
     file_index |-> current_item.file_index,
     feed_id |-> current_item.feed_id]

\* lines 266-278: one iteration of the merge loop
MergeStep ==
    /\ pc = "merge"
    /\ min_heap # {}
    /\ \E current_item \in HeapTops(min_heap) :
          LET s == file_streams[current_item.file_index]
              next_item == read_next_record_with_timestamp_raw(s.venue, s.pos)
          IN  /\ merged_file' =
                    IF merged_file.state \in {"openfull", "failed"}
                    THEN \* the write fails and leaves the stream failed
                         [merged_file EXCEPT !.state = "failed"]
                    ELSE [merged_file EXCEPT !.recs = Append(@, MergedEntry(current_item))]
              /\ total_records_merged' = total_records_merged + 1
              /\ IF next_item # NoRecord
                 THEN /\ file_streams' = [file_streams EXCEPT
                                            ![current_item.file_index].pos = @ + 1]
                      /\ min_heap' = (min_heap \ {current_item}) \cup
                                        {NextHeapItem(current_item, next_item)}
                 ELSE /\ file_streams' = file_streams
                      /\ min_heap' = min_heap \ {current_item}
    /\ UNCHANGED <<files, pc, source_files_to_process, i,
                   first_valid_header_data_opt, result>>

\* lines 289-290: the header written over the placeholder
FinalHeaderUnpatched == first_valid_header_data_opt

FinalHeader ==
    [first_valid_header_data_opt EXCEPT !.count = total_records_merged]

\* lines 280-322: close the inputs; patch the header and return the path,
\* or, when nothing was merged, remove the placeholder-only file
FinishMerge ==
    /\ pc = "merge"
    /\ min_heap = {}
    /\ file_streams' = <<>>
    /\ IF total_records_merged > 0
       THEN /\ merged_file' =
                  IF merged_file.state = "failed"
                  THEN \* seekp and write do nothing on a failed stream
                       merged_file
                  ELSE [merged_file EXCEPT !.state = "closed", !.header = FinalHeader]
            /\ result' = "path"
       ELSE /\ merged_file' =
                  IF merged_file.recs = <<>> /\ merged_file.header = NullHeader
                  THEN NoFile
                  ELSE [merged_file EXCEPT !.state = "closed"]
            /\ result' = "nullopt"
    /\ pc' = "done"
    /\ UNCHANGED <<files, source_files_to_process, i,
                   first_valid_header_data_opt, min_heap, total_records_merged>>

MergeNext ==
    \/ ScanVenues
    \/ OpenInput
    \/ NothingToMerge
    \/ CreateOutputFails
    \/ CreateOutput
    \/ MergeStep
    \/ FinishMerge

\* ------------------------------------------------- properties of the merger
MergedRecs == merged_file.recs
MergedIdx == 1..Len(MergedRecs)
MergeFinished == pc = "done" /\ result = "path"
SurvivingVenues == {v \in Venues : files[v].status = "ok"}
SkippedVenues == {v \in Venues : files[v].status \in {"noopen", "shorthdr"}}
InputSorted(v) ==
    \A j, k \in 1..Len(files[v].recs) :
        j < k => files[v].recs[j].ts <= files[v].recs[k].ts
SurvivingRecords == UNION {{files[v].recs[k] : k \in 1..Len(files[v].recs)} :
                                v \in SurvivingVenues}
\* every complete record of every surviving input under its own feed_id
ExpectedEntries ==
    UNION {{[original_feed_id |-> files[v].header.feed_id, record |-> files[v].recs[k]] :
                k \in 1..Len(files[v].recs)} : v \in SurvivingVenues}
VenueOf(entry) == entry.record.data[1]
VenuesMerged == {VenueOf(MergedRecs[k]) : k \in MergedIdx}

\* C1: if every surviving input is non-decreasing in timestamp, the records
\* written to the merged output so far are non-decreasing in timestamp.
C1_MergedNonDecreasing ==
    (\A v \in SurvivingVenues : InputSorted(v)) =>
        \A k \in MergedIdx : k < Len(MergedRecs) =>
            MergedRecs[k].record.ts <= MergedRecs[k + 1].record.ts

\* a finished merge of two sorted inputs whose timestamps rise
C1_Witness ==
    /\ MergeFinished
    /\ \A v \in SurvivingVenues : InputSorted(v)
    /\ Cardinality(VenuesMerged) >= 2
    /\ Len(MergedRecs) >= 3
    /\ MergedRecs[1].record.ts < MergedRecs[Len(MergedRecs)].record.ts

\* C2: no record is written twice, only complete records of surviving
\* inputs are written, and a finished merge has written every one of them.
C2_MergedIsPermutation ==
    /\ \A j, k \in MergedIdx : j # k => MergedRecs[j].record # MergedRecs[k].record
    /\ \A k \in MergedIdx : MergedRecs[k].record \in SurvivingRecords
    /\ MergeFinished => \A r \in SurvivingRecords : \E k \in MergedIdx : MergedRecs[k].record = r

\* a finished merge of two inputs, one of them ending in a partial record
C2_Witness ==
    /\ MergeFinished
    /\ Cardinality(VenuesMerged) >= 2
    /\ Len(MergedRecs) >= 3
    /\ \E v \in VenuesMerged : files[v].tail

\* C3: when a record is emitted while a record of another input with the
\* same timestamp is pending, the emitted one has the smaller input index.
C3_TieBreakByInputIndex ==
    [][(pc = "merge" /\ Len(merged_file'.recs) = Len(merged_file.recs) + 1) =>
          \A x, y \in min_heap :
              (/\ x.record_data = merged_file'.recs[Len(merged_file'.recs)].record
               /\ y.timestamp = x.timestamp) => x.file_index <= y.file_index]_vars

\* C4: the header of a finished merged file has feed_id = 0.
C4_MergedHeaderFeedIdZero ==
    MergeFinished => merged_file.header.feed_id = 0

\* C5: once the merged file is closed, the count of its header is the
\* number of merged records written after the header.
C5_HeaderCountMatches ==
    merged_file.state = "closed" => merged_file.header.count = Len(MergedRecs)

\* a finished merge holding the records of two inputs
C5_Witness ==
    /\ MergeFinished
    /\ merged_file.state = "closed"
    /\ Cardinality(VenuesMerged) >= 2
    /\ Len(MergedRecs) >= 2

\* C6: every merged record carries the feed_id of the header of the input
\* file the record came from.
C6_OwnFeedIdPrefix ==
    \A k \in MergedIdx :
        MergedRecs[k].original_feed_id = files[VenueOf(MergedRecs[k])].header.feed_id

\* two inputs merged, a record after the first of the earlier input included
C6_Witness ==
    /\ MergeFinished
    /\ Cardinality(VenuesMerged) >= 2
    /\ \E k \in MergedIdx :
          /\ MergedRecs[k].record.data[2] >= 2
          /\ \E w \in VenuesMerged : w > VenueOf(MergedRecs[k])

\* C7: with an input that does not open or has a short header, the merge
\* still completes (when the output can be created and a surviving input has
\* a record), the output holds exactly the surviving inputs' records, each
\* under its own input's feed_id, and each input's records in file order.
C7_SkippedInputsLeaveMergeOfSurvivors ==
    (pc = "done" /\ SkippedVenues # {} /\ SurvivingRecords # {}
        /\ merged_file.state # "blocked") =>
        /\ result = "path"
        /\ {MergedRecs[k] : k \in MergedIdx} = ExpectedEntries
        /\ Len(MergedRecs) = Cardinality(ExpectedEntries)
        /\ \A j, k \in MergedIdx :
              (j < k /\ VenueOf(MergedRecs[j]) = VenueOf(MergedRecs[k])) =>
                  MergedRecs[j].record.data[2] < MergedRecs[k].record.data[2]

\* a skipped input in front of a surviving one that holds two records
C7_Witness ==
    /\ MergeFinished
    /\ \E v \in SkippedVenues : \E w \in SurvivingVenues :
          v < w /\ Len(files[w].recs) >= 2
    /\ Len(MergedRecs) >= 2

\* C8: a merge whose surviving inputs hold no complete record reports no
\* result and leaves no output file.
C8_NoOutputWithoutRecords ==
    (pc = "done" /\ SurvivingRecords = {}) =>
        /\ result = "nullopt"
        /\ merged_file.state \in {"absent", "blocked"}

\* an input survives but holds only a partial record; no file is left
C8_Witness ==
    /\ pc = "done"
    /\ SurvivingRecords = {}
    /\ \E v \in SurvivingVenues : files[v].tail
    /\ result = "nullopt"
    /\ merged_file = NoFile

\* the position in its input file of the record of a merged entry
IndexInInput(entry) == entry.record.data[2]

\* C34: the records of one input appear in the merged output in the order
\* of that input's file, sorted by timestamp or not: no input has more
\* than one record pending in the heap, and a finished merge has written, in
\* file order, all the records of each surviving input.
C34_InputOrderKept ==
    /\ \A x, y \in min_heap : x.file_index = y.file_index => x = y
    /\ \A j, k \in MergedIdx :
          (j < k /\ VenueOf(MergedRecs[j]) = VenueOf(MergedRecs[k])) =>
              IndexInInput(MergedRecs[j]) < IndexInInput(MergedRecs[k])
    /\ MergeFinished =>
          \A v \in SurvivingVenues :
              Cardinality({k \in MergedIdx : VenueOf(MergedRecs[k]) = v}) =
                  Len(files[v].recs)

\* a finished merge of two inputs, one of them with falling timestamps;
\* the merged output is not sorted by timestamp
C34_Witness ==
    /\ MergeFinished
    /\ Cardinality(VenuesMerged) >= 2
    /\ \E v \in VenuesMerged : ~InputSorted(v)
    /\ \E k \in MergedIdx : k < Len(MergedRecs) /\
           MergedRecs[k].record.ts > MergedRecs[k + 1].record.ts


\* =========================================================================
\* Snapshot builder (process_merged_tops.cpp)
\* =========================================================================
NUM_LEVELS_TO_SNAPSHOT == 3
PROCESSED_SNAPSHOT_FILE_FEED_ID == 0

FeedIds == 1..MaxFeeds

\* TopLevelData
Lv(bp, bq, ap, aq) == [bid_price |-> bp, ask_price |-> ap, bid_qty |-> bq, ask_qty |-> aq]
NoLv == Lv(0, 0, 0, 0)

\* The three levels of the tops records the merged file may hold: an empty
\* book, one or more levels per side, one side only, the same price at two
\* levels of one venue, levels absent by price = 0 or by qty = 0, and two
\* bid-only books that share their best price.
TopsShapes ==
    { <<NoLv, NoLv, NoLv>>,
      <<Lv(2, 1, 3, 1), NoLv, NoLv>>,
      <<Lv(2, 2, 3, 1), NoLv, NoLv>>,
      <<Lv(2, 2, 3, 2), Lv(2, 1, 3, 1), Lv(1, 1, 4, 1)>>,
      <<Lv(4, 1, 5, 1), Lv(3, 1, 6, 1), Lv(0, 1, 7, 0)>>,
      <<Lv(0, 0, 3, 1), NoLv, NoLv>>,
      <<Lv(100, 10, 0, 0), NoLv, NoLv>>,
      <<Lv(100, 7, 0, 0), Lv(99, 5, 0, 0), NoLv>> }

\* The k-th entry of the merged file: a feed_id prefix and a TopsRecord.  The
\* builder only copies the timestamp; the k-th entry carries timestamp k.
MergedTopsEntries(k) ==
    {[original_feed_id |-> f, ts |-> k, levels |-> l] : f \in FeedIds, l \in TopsShapes}

NoEntry == [original_feed_id |-> 0, ts |-> 0, levels |-> <<NoLv, NoLv, NoLv>>]
\* the buffer after a read that met fewer bytes than one entry
PartialEntry == [original_feed_id |-> -1, ts |-> -1, levels |-> <<NoLv, NoLv, NoLv>>]

\* input header fields copied to the output header
InputDateint == 20240102
InputSymbolIdx == 42

RECURSIVE SortedSeqOf(_)
SortedSeqOf(S) ==
    IF S = {} THEN <<>>
    ELSE LET m == CHOOSE x \in S : \A y \in S : x <= y
         IN  <<m>> \o SortedSeqOf(S \ {m})

Reverse(s) == [k \in 1..Len(s) |-> s[Len(s) + 1 - k]]

VenueDataLessByQuantity(a, b) ==
    IF a.quantity # b.quantity THEN a.quantity < b.quantity ELSE a.feed_id < b.feed_id

\* VenueData::operator<
VenueDataLess(a, b) ==
    IF a.feed_id # b.feed_id THEN a.feed_id < b.feed_id ELSE a.quantity < b.quantity

\* std::sort(venues_at_price.begin(), venues_at_price.end())
RECURSIVE InsertVenue(_, _)
InsertVenue(sorted, x) ==
    IF sorted = <<>> THEN <<x>>
    ELSE IF VenueDataLess(x, Head(sorted)) THEN <<x>> \o sorted
         ELSE <<Head(sorted)>> \o InsertVenue(Tail(sorted), x)

RECURSIVE SortVenues(_)
SortVenues(s) ==
    IF s = <<>> THEN <<>> ELSE InsertVenue(SortVenues(Tail(s)), Head(s))

BidPushesFirstLevelOnly(levels, feed) ==
    [k \in 1..3 |->
        IF k = 1 /\ levels[k].bid_price # 0 /\ levels[k].bid_qty > 0
        THEN <<<<levels[k].bid_price, [quantity |-> levels[k].bid_qty, feed_id |-> feed]>>>>
        ELSE <<>>]

\* lines 114-127: what the venues push, in map order (feed_id ascending) and
\* level order, as <<price, VenueData>> pairs
BidPushes(levels, feed) ==
    [k \in 1..3 |->
        IF levels[k].bid_price # 0 /\ levels[k].bid_qty > 0
        THEN <<<<levels[k].bid_price, [quantity |-> levels[k].bid_qty, feed_id |-> feed]>>>>
        ELSE <<>>]
AskPushes(levels, feed) ==
    [k \in 1..3 |->
        IF levels[k].ask_price # 0 /\ levels[k].ask_qty > 0
        THEN <<<<levels[k].ask_price, [quantity |-> levels[k].ask_qty, feed_id |-> feed]>>>>
        ELSE <<>>]

RECURSIVE Pushes(_, _, _)
Pushes(latest_quotes_map, feeds, isBid) ==
    IF feeds = <<>> THEN <<>>
    ELSE LET p == IF isBid THEN BidPushes(latest_quotes_map[Head(feeds)], Head(feeds))
                  ELSE AskPushes(latest_quotes_map[Head(feeds)], Head(feeds))
         IN  p[1] \o p[2] \o p[3] \o Pushes(latest_quotes_map, Tail(feeds), isBid)

\* bids_accumulator[price] / asks_accumulator[price]: the pushes at a price
RECURSIVE AccumulatorAt(_, _)
AccumulatorAt(pushes, price) ==
    IF pushes = <<>> THEN <<>>
    ELSE (IF Head(pushes)[1] = price THEN <<Head(pushes)[2]>> ELSE <<>>)
            \o AccumulatorAt(Tail(pushes), price)

RECURSIVE FinalLevelsUncapped(_, _, _)
FinalLevelsUncapped(prices, pushes, done) ==
    IF prices = <<>> THEN done
    ELSE FinalLevelsUncapped(Tail(prices), pushes,
            Append(done, [price |-> Head(prices),
                          venues |-> SortVenues(AccumulatorAt(pushes, Head(prices)))]))

\* lines 135-142 and 150-157: up to NUM_LEVELS_TO_SNAPSHOT levels in the
\* order of prices, the venues of each level sorted
RECURSIVE FinalLevels(_, _, _)
FinalLevels(prices, pushes, done) ==
    IF prices = <<>> \/ Len(done) >= NUM_LEVELS_TO_SNAPSHOT THEN done
    ELSE FinalLevels(Tail(prices), pushes,
            Append(done, [price |-> Head(prices),
                          venues |-> SortVenues(AccumulatorAt(pushes, Head(prices)))]))

\* create_snapshot: <<final_bid_levels, final_ask_levels>>
create_snapshot(latest_quotes_map) ==
    LET feeds == SortedSeqOf(DOMAIN latest_quotes_map)
        bid_pushes == Pushes(latest_quotes_map, feeds, TRUE)
        ask_pushes == Pushes(latest_quotes_map, feeds, FALSE)
        bid_prices == Reverse(SortedSeqOf({bid_pushes[k][1] : k \in 1..Len(bid_pushes)}))
        ask_prices == SortedSeqOf({ask_pushes[k][1] : k \in 1..Len(ask_pushes)})
    IN  <<FinalLevels(bid_prices, bid_pushes, <<>>),
          FinalLevels(ask_prices, ask_pushes, <<>>)>>

NoSnapFile == [state |-> "absent", header |-> NoHeader, snapshots |-> <<>>]
BlockedSnapFile == [state |-> "blocked", header |-> NoHeader, snapshots |-> <<>>]

SnapIdle ==
    /\ snap_pc = "idle"
    /\ f_in = "none"
    /\ entry_buffer = NoEntry
    /\ latest_venue_quotes = <<>>
    /\ last_written_bids = <<>>
    /\ last_written_asks = <<>>
    /\ total_input_records_read = 0
    /\ num_snapshots_written = 0
    /\ f_out = NoSnapFile
    /\ exit_code = -1

MergeIdle ==
    /\ files = <<>>
    /\ pc = "idle"
    /\ source_files_to_process = <<>>
    /\ i = 1
    /\ file_streams = <<>>
    /\ first_valid_header_data_opt = NoHeader
    /\ min_heap = {}
    /\ total_records_merged = 0
    /\ merged_file = NoFile
    /\ result = "idle"

\* the output file left by an earlier run over another input
ExistingSnapFile ==
    [state |-> "closed",
     header |-> [feed_id |-> PROCESSED_SNAPSHOT_FILE_FEED_ID, dateint |-> InputDateint,
                 count |-> 1, symbol_idx |-> InputSymbolIdx],
     snapshots |-> << [timestamp |-> 1,
                       bids |-> << [price |-> 2,
                                    venues |-> << [quantity |-> 1, feed_id |-> 1] >>] >>,
                       asks |-> <<>>] >>]

\* a run whose output path holds one of the files of outputs
SnapInitOver(outputs) ==
    /\ snap_pc = "start"
    /\ f_in \in {"noopen", "shorthdr", "ok"}
    /\ entry_buffer = NoEntry
    /\ latest_venue_quotes = <<>>
    /\ last_written_bids = <<>>
    /\ last_written_asks = <<>>
    /\ total_input_records_read = 0
    /\ num_snapshots_written = 0
    /\ f_out \in outputs
    /\ exit_code = -1
    /\ MergeIdle
    /\ FillsIdle
    /\ QuoteIdle
    /\ CodecIdle
    /\ CorrIdle
    /\ ImpactIdle
    /\ OverallIdle
    /\ PoolIdle
    /\ CacheIdle

SnapInit == SnapInitOver({NoSnapFile, BlockedSnapFile})

\* lines 215-219: the input file does not open
SnapInputFails ==
    /\ snap_pc = "start"
    /\ f_in = "noopen"
    /\ snap_pc' = "done"
    /\ exit_code' = 1
    /\ UNCHANGED <<f_in, entry_buffer, latest_venue_quotes, last_written_bids,
                   last_written_asks, total_input_records_read,
                   num_snapshots_written, f_out>>

\* lines 221-225: the output file does not open
SnapOutputFails ==
    /\ snap_pc = "start"
    /\ f_in # "noopen"
    /\ f_out.state = "blocked"
    /\ snap_pc' = "done"
    /\ exit_code' = 1
    /\ UNCHANGED <<f_in, entry_buffer, latest_venue_quotes, last_written_bids,
                   last_written_asks, total_input_records_read,
                   num_snapshots_written, f_out>>

\* lines 221-232: the output is created (truncated), the header is short
SnapShortHeader ==
    /\ snap_pc = "start"
    /\ f_in = "shorthdr"
    /\ f_out.state # "blocked"
    /\ f_out' = [state |-> "closed", header |-> NoHeader, snapshots |-> <<>>]
    /\ snap_pc' = "done"
    /\ exit_code' = 1
    /\ UNCHANGED <<f_in, entry_buffer, latest_venue_quotes, last_written_bids,
                   last_written_asks, total_input_records_read,
                   num_snapshots_written>>

\* lines 221-248: the output is created and the placeholder header written
SnapStart ==
    /\ snap_pc = "start"
    /\ f_in = "ok"
    /\ f_out.state # "blocked"
    /\ f_out' = [state |-> "open", header |-> NullHeader, snapshots |-> <<>>]
    /\ snap_pc' = "loop"
    /\ UNCHANGED <<f_in, entry_buffer, latest_venue_quotes, last_written_bids,
                   last_written_asks, total_input_records_read,
                   num_snapshots_written, exit_code>>

\* lines 275-276: whether the current book is written
ShouldEmitWithoutDedup(current_bids, current_asks) ==
    current_bids # <<>> \/ current_asks # <<>>

ShouldEmitOnBidChange(current_bids, current_asks) ==
    /\ current_bids # <<>> \/ current_asks # <<>>
    /\ current_bids # last_written_bids

ShouldEmitEmptyBooks(current_bids, current_asks) ==
    current_bids # last_written_bids \/ current_asks # last_written_asks

ShouldEmit(current_bids, current_asks) ==
    /\ current_bids # <<>> \/ current_asks # <<>>
    /\ current_bids # last_written_bids \/ current_asks # last_written_asks

\* a per-level patch: a level the record does not quote keeps its old value
UpdatedQuotesPatchesLevels(entry) ==
    [f \in DOMAIN latest_venue_quotes \cup {entry.original_feed_id} |->
        IF f # entry.original_feed_id THEN latest_venue_quotes[f]
        ELSE [l \in 1..NUM_LEVELS_TO_SNAPSHOT |->
                IF entry.levels[l] = NoLv /\ f \in DOMAIN latest_venue_quotes
                THEN latest_venue_quotes[f][l] ELSE entry.levels[l]]]

\* lines 263-269: the venue's entry is replaced by the record's levels
UpdatedQuotes(entry) ==
    [f \in DOMAIN latest_venue_quotes \cup {entry.original_feed_id} |->
        IF f = entry.original_feed_id THEN entry.levels ELSE latest_venue_quotes[f]]

\* lines 250-283: one iteration of the read loop
ProcessEntry ==
    /\ snap_pc = "loop"
    /\ total_input_records_read < MaxSnapEntries
    /\ \E entry \in MergedTopsEntries(total_input_records_read + 1) :
       \E snapshot_pair \in {create_snapshot(UpdatedQuotes(entry))} :
          LET current_bids == snapshot_pair[1]
              current_asks == snapshot_pair[2]
          IN  /\ entry_buffer' = entry
              /\ total_input_records_read' = total_input_records_read + 1
              /\ latest_venue_quotes' = UpdatedQuotes(entry)
              /\ IF ShouldEmit(current_bids, current_asks)
                 THEN /\ f_out' = [f_out EXCEPT !.snapshots =
                               Append(@, [timestamp |-> entry.ts,
                                          bids |-> current_bids,
                                          asks |-> current_asks])]
                      /\ num_snapshots_written' = num_snapshots_written + 1
                      /\ last_written_bids' = current_bids
                      /\ last_written_asks' = current_asks
                 ELSE UNCHANGED <<f_out, num_snapshots_written,
                                  last_written_bids, last_written_asks>>
    /\ UNCHANGED <<snap_pc, f_in, exit_code>>

FinishSnapshotsCountsRecords ==
    /\ snap_pc = "loop"
    /\ f_out' = [f_out EXCEPT !.state = "closed",
                              !.header = [feed_id |-> PROCESSED_SNAPSHOT_FILE_FEED_ID,
                                          dateint |-> InputDateint,
                                          count |-> total_input_records_read,
                                          symbol_idx |-> InputSymbolIdx]]
    /\ entry_buffer' \in {entry_buffer, PartialEntry}
    /\ snap_pc' = "done"
    /\ exit_code' = 0
    /\ UNCHANGED <<f_in, latest_venue_quotes, last_written_bids,
                   last_written_asks, total_input_records_read,
                   num_snapshots_written>>

\* lines 250-300: the read fails, at the end of the file (the buffer stays
\* as it was) or on a partial entry (its bytes lie in the buffer and are
\* never decoded): patch the header and exit
FinishSnapshots ==
    /\ snap_pc = "loop"
    /\ f_out' = [f_out EXCEPT !.state = "closed",
                              !.header = [feed_id |-> PROCESSED_SNAPSHOT_FILE_FEED_ID,
                                          dateint |-> InputDateint,
                                          count |-> num_snapshots_written,
                                          symbol_idx |-> InputSymbolIdx]]
    /\ entry_buffer' \in {entry_buffer, PartialEntry}
    /\ snap_pc' = "done"
    /\ exit_code' = 0
    /\ UNCHANGED <<f_in, latest_venue_quotes, last_written_bids,
                   last_written_asks, total_input_records_read,
                   num_snapshots_written>>

SnapNext ==
    \/ SnapInputFails
    \/ SnapOutputFails
    \/ SnapShortHeader
    \/ SnapStart
    \/ ProcessEntry
    \/ FinishSnapshots

\* --------------------------------------- properties of the snapshot builder
Snapshots == f_out.snapshots
EmptyBook == <<<<>>, <<>>>>
BookOf(snapshot) == <<snapshot.bids, snapshot.asks>>
LastEmittedBook(snapshots) ==
    IF snapshots = <<>> THEN EmptyBook ELSE BookOf(snapshots[Len(snapshots)])
\* structural difference of two level sequences
LevelsDiffer(x, y) ==
    \/ Len(x) # Len(y)
    \/ \E r \in 1..Len(x) : x[r].price # y[r].price \/ x[r].venues # y[r].venues

\* C9: every emitted snapshot has a level on some side and differs in its
\* bid levels or its ask levels from the snapshot emitted before it.
C9_SnapshotsNonEmptyAndChanging ==
    \A k \in 1..Len(Snapshots) :
        /\ Snapshots[k].bids # <<>> \/ Snapshots[k].asks # <<>>
        /\ k > 1 => \/ LevelsDiffer(Snapshots[k].bids, Snapshots[k - 1].bids)
                    \/ LevelsDiffer(Snapshots[k].asks, Snapshots[k - 1].asks)

\* a finished run that emitted at least twice and skipped a record
C9_Witness ==
    /\ snap_pc = "done"
    /\ Len(Snapshots) >= 2
    /\ total_input_records_read > Len(Snapshots)

\* C10: processing a record appends a snapshot of the aggregated book,
\* stamped with the record's timestamp, exactly when that book is non-empty
\* and differs from the last emitted one; afterwards a non-empty aggregated
\* book is the last emitted snapshot.
C10_EmitIffChanged ==
    [][total_input_records_read' = total_input_records_read + 1 =>
          \A cur \in {create_snapshot(latest_venue_quotes')} :
              LET changed == cur # EmptyBook /\ cur # LastEmittedBook(f_out.snapshots)
              IN  /\ changed => f_out'.snapshots =
                          Append(f_out.snapshots, [timestamp |-> entry_buffer'.ts,
                                                   bids |-> cur[1], asks |-> cur[2]])
                  /\ ~changed => f_out'.snapshots = f_out.snapshots
                  /\ cur # EmptyBook => LastEmittedBook(f_out'.snapshots) = cur]_vars

\* the third record read changed a book that the second had left as it was
C10_Witness ==
    /\ total_input_records_read = 3
    /\ Len(Snapshots) = 2
    /\ Snapshots[1].timestamp = 1
    /\ Snapshots[2].timestamp = 3
    /\ entry_buffer.ts = 3

\* C11: in every emitted snapshot the bid levels are strictly decreasing in
\* price, the ask levels strictly increasing, and each side has at most
\* three levels.
C11_LevelsOrderedAndCapped ==
    \A k \in 1..Len(Snapshots) :
        LET b == Snapshots[k].bids
            a == Snapshots[k].asks
        IN  /\ Len(b) <= 3
            /\ Len(a) <= 3
            /\ \A r \in 1..Len(b) : r > 1 => b[r].price < b[r - 1].price
            /\ \A r \in 1..Len(a) : r > 1 => a[r].price > a[r - 1].price

\* two venues quote four bid and four ask prices between them and the
\* emitted snapshot keeps the best three of each side
C11_Witness ==
    /\ Len(Snapshots) >= 1
    /\ LET s == Snapshots[Len(Snapshots)]
       IN  /\ Len(s.bids) = 3 /\ s.bids[1].price = 4 /\ s.bids[3].price = 2
           /\ Len(s.asks) = 3 /\ s.asks[1].price = 3 /\ s.asks[3].price = 5
    /\ DOMAIN latest_venue_quotes = {1, 2}
    /\ \E f \in {1, 2} : latest_venue_quotes[f][3].bid_price = 1

\* C12: within every level of every snapshot the venue tuples are in
\* ascending order of (feed_id, quantity), whatever the order in which the
\* venues' records arrived.
VenuesAscending(venues) ==
    \A r \in 1..Len(venues) : \A s \in 1..Len(venues) :
        r < s => \/ venues[r].feed_id < venues[s].feed_id
                 \/ /\ venues[r].feed_id = venues[s].feed_id
                    /\ venues[r].quantity <= venues[s].quantity

C12_VenuesSortedByFeedThenQty ==
    \A k \in 1..Len(Snapshots) :
        /\ \A r \in 1..Len(Snapshots[k].bids) : VenuesAscending(Snapshots[k].bids[r].venues)
        /\ \A r \in 1..Len(Snapshots[k].asks) : VenuesAscending(Snapshots[k].asks[r].venues)

\* venue 2's record arrived before venue 1's; the level lists venue 1 with
\* the larger quantity first, then venue 2's two quotes by quantity
C12_Witness ==
    /\ Len(Snapshots) = 2
    /\ Snapshots[1].bids # <<>>
    /\ Snapshots[1].bids[1].venues[1].feed_id = 2
    /\ entry_buffer.original_feed_id = 1
    /\ Snapshots[2].bids[1].price = 2
    /\ Snapshots[2].bids[1].venues =
          << [quantity |-> 2, feed_id |-> 1],
             [quantity |-> 1, feed_id |-> 2],
             [quantity |-> 2, feed_id |-> 2] >>

\* scenario 5: venue 1 bids 100 for 10, venue 2 bids 100 for 7 and 99 for 5
Scenario5Quotes ==
    (1 :> <<Lv(100, 10, 0, 0), NoLv, NoLv>>) @@
    (2 :> <<Lv(100, 7, 0, 0), Lv(99, 5, 0, 0), NoLv>>)

\* C13 as stated: in scenario 5 the aggregated bids are level 1 price 100
\* with venue tuples (qty, feed_id) in the order (7,2),(10,1) and level 2
\* price 99 with (5,2).
C13_Scenario5AsStated ==
    latest_venue_quotes = Scenario5Quotes =>
        LastEmittedBook(Snapshots)[1] =
            << [price |-> 100, venues |-> << [quantity |-> 7, feed_id |-> 2],
                                             [quantity |-> 10, feed_id |-> 1] >>],
               [price |-> 99, venues |-> << [quantity |-> 5, feed_id |-> 2] >>] >>

\* C13 amended: in scenario 5 the aggregated bids are level 1 price 100 with
\* venue tuples (qty, feed_id) in the order (10,1),(7,2), that is by feed_id
\* first, and level 2 price 99 with (5,2).
C13_Scenario5ByFeedId ==
    latest_venue_quotes = Scenario5Quotes =>
        LastEmittedBook(Snapshots)[1] =
            << [price |-> 100, venues |-> << [quantity |-> 10, feed_id |-> 1],
                                             [quantity |-> 7, feed_id |-> 2] >>],
               [price |-> 99, venues |-> << [quantity |-> 5, feed_id |-> 2] >>] >>

\* the two venues' records were read and the snapshot of scenario 5 written
C13_Witness ==
    /\ latest_venue_quotes = Scenario5Quotes
    /\ total_input_records_read = 2
    /\ Len(Snapshots) = 2
    /\ Snapshots[2].asks = <<>>

\* C14: when processing ends, the output header has feed_id = 0 and a count
\* equal to the number of snapshots written after it, zero included.
C14_FinalHeader ==
    (snap_pc = "done" /\ exit_code = 0) =>
        /\ f_out.header.feed_id = 0
        /\ f_out.header.count = Len(Snapshots)

\* a finished run whose header counts fewer snapshots than records read
C14_Witness ==
    /\ snap_pc = "done"
    /\ exit_code = 0
    /\ f_out.state = "closed"
    /\ f_out.header.count = 1
    /\ total_input_records_read = 3

\* a finished run over an input without entries: the header counts zero
C14_WitnessZero ==
    /\ snap_pc = "done"
    /\ exit_code = 0
    /\ f_out.header.count = 0
    /\ Snapshots = <<>>
    /\ total_input_records_read = 0

\* C32: processing a record of venue v replaces all three levels of v's
\* entry in latest_venue_quotes by the record's levels and leaves the entry
\* of every other venue as it was; no step removes an entry.
C32_RecordReplacesOwnVenueOnly ==
    [][/\ DOMAIN latest_venue_quotes \subseteq DOMAIN latest_venue_quotes'
       /\ total_input_records_read' = total_input_records_read + 1 =>
             LET v == entry_buffer'.original_feed_id
             IN  /\ DOMAIN latest_venue_quotes' = DOMAIN latest_venue_quotes \cup {v}
                 /\ latest_venue_quotes'[v] = entry_buffer'.levels
                 /\ \A f \in DOMAIN latest_venue_quotes \ {v} :
                        latest_venue_quotes'[f] = latest_venue_quotes[f]
       /\ total_input_records_read' = total_input_records_read =>
             latest_venue_quotes' = latest_venue_quotes]_vars

\* the third record replaced the three-level entry of its venue by a book
\* with one level, next to the entry of another venue
C32_Witness ==
    /\ total_input_records_read = 3
    /\ Cardinality(DOMAIN latest_venue_quotes) = 2
    /\ latest_venue_quotes[entry_buffer.original_feed_id] =
           <<Lv(2, 1, 3, 1), NoLv, NoLv>>
    /\ \E f \in DOMAIN latest_venue_quotes :
           latest_venue_quotes[f] = <<Lv(4, 1, 5, 1), Lv(3, 1, 6, 1), Lv(0, 1, 7, 0)>>

\* C35: a record that leaves the aggregated book empty on both sides emits
\* nothing and keeps the remembered last emitted book; a record that brings
\* the book back to the last emitted one emits nothing either, and no
\* emitted snapshot is empty: the output does not show that the book was
\* empty in between.
C35_EmptyBookLeavesNoTrace ==
    /\ [](\A k \in 1..Len(Snapshots) : BookOf(Snapshots[k]) # EmptyBook)
    /\ [][total_input_records_read' = total_input_records_read + 1 =>
            \A cur \in {create_snapshot(latest_venue_quotes')} :
                /\ cur = EmptyBook =>
                      /\ f_out'.snapshots = f_out.snapshots
                      /\ last_written_bids' = last_written_bids
                      /\ last_written_asks' = last_written_asks
                /\ cur = <<last_written_bids, last_written_asks>> =>
                      f_out'.snapshots = f_out.snapshots]_vars

\* the first record was emitted and the second emptied the book: the venue's
\* entry is still in the map, the book is empty, and the emitted book is
\* remembered, so that a third record restoring it is not emitted
C35_Witness ==
    /\ total_input_records_read = 2
    /\ DOMAIN latest_venue_quotes = {1}
    /\ create_snapshot(latest_venue_quotes) = EmptyBook
    /\ Len(Snapshots) = 1
    /\ Snapshots[1].timestamp = 1
    /\ <<last_written_bids, last_written_asks>> = BookOf(Snapshots[1])


\* =========================================================================
\* Trade-bar aggregator (parse_book_fills.cpp)
\* =========================================================================
NANOS_PER_SEC == 1000000000

\* std::chrono::floor<std::chrono::seconds> of the fill's time point
floor_seconds(raw_timestamp_ns) == raw_timestamp_ns \div NANOS_PER_SEC

\* static_cast<double>(trade_price) / 1e9, written in units of 1e-9 (exact
\* for the prices used here)
PriceOf(trade_price) == trade_price

\* int32_t = uint32_t keeps the bit pattern
Int32FromU32(q) == q

\* int32_t += uint32_t: the sum is formed modulo 2^32 and stored back
AddInt32U32(v, q) ==
    LET lo == v.lo + q.lo
        hi == v.hi + q.hi + (lo \div LimbBase)
    IN  U32(hi % LimbBase, lo % LimbBase)

\* bar_total_volume > 0 on the int32_t
Int32Positive(v) == v.hi < LimbBase \div 2 /\ (v.hi > 0 \/ v.lo > 0)

\* quantities: 0, 1, 2^31 - 1 and 2^32 - 1
Qty0 == U32(0, 0)
Qty1 == U32(0, 1)
QtyMaxInt32 == U32((LimbBase \div 2) - 1, LimbBase - 1)
QtyMaxU32 == U32(LimbBase - 1, LimbBase - 1)

\* timestamps: the last nanosecond of the seconds 0 and 1, the first of 2
FillTimestamps == {NANOS_PER_SEC - 1, 2 * NANOS_PER_SEC - 1, 2 * NANOS_PER_SEC}

\* DataRecord: the fields the aggregator reads
DataRecords ==
    {[ts |-> t, trade_price |-> pq[1], trade_qty |-> pq[2]] :
        t \in FillTimestamps,
        pq \in {<<1, Qty1>>, <<2, Qty1>>, <<3, Qty0>>, <<2, QtyMaxInt32>>, <<3, QtyMaxU32>>}}

\* the bar file left by an earlier run
ExistingBarFile ==
    [state |-> "closed",
     bars |-> << [timestamp_sec |-> 1, high |-> 2, low |-> 1, open |-> 1, close |-> 2,
                  volume |-> Qty1] >>]

\* a run whose output path holds one of the files of writable, or cannot
\* be opened
FillsInitOver(writable) ==
    /\ fills_pc = "start"
    /\ \E n \in 0..MaxFills : \E recs \in [1..n -> DataRecords] :
        \/ /\ n = 0
           /\ input_file \in {[state |-> s, number_of_fills |-> 0, records |-> <<>>] :
                                s \in {"noopen", "shorthdr"}}
           /\ output_file \in writable \cup {BlockedBarFile}
        \/ /\ \E c \in {0, n, n + 1} \cap (0..MaxFills) :
                 input_file = [state |-> "ok", number_of_fills |-> c, records |-> recs]
           /\ output_file \in IF n = 0 THEN writable \cup {BlockedBarFile} ELSE writable
    /\ FillsLocalsInitial
    /\ fills_exit_code = -1
    /\ MergeIdle
    /\ SnapIdle
    /\ QuoteIdle
    /\ CodecIdle
    /\ CorrIdle
    /\ ImpactIdle
    /\ OverallIdle
    /\ PoolIdle
    /\ CacheIdle

FillsInit == FillsInitOver({NoBarFile})

FillsLocals == <<fill_i, current_bar_tp_utc, bar_open_price, bar_high_price,
                 bar_low_price, bar_close_price, bar_total_volume>>

\* lines 184-188: the input file does not open
FillsInputFails ==
    /\ fills_pc = "start"
    /\ input_file.state = "noopen"
    /\ fills_pc' = "done"
    /\ fills_exit_code' = 1
    /\ UNCHANGED <<input_file, output_file, FillsLocals>>

\* lines 190-195: the output file does not open
FillsOutputFails ==
    /\ fills_pc = "start"
    /\ input_file.state # "noopen"
    /\ output_file.state = "blocked"
    /\ fills_pc' = "done"
    /\ fills_exit_code' = 1
    /\ UNCHANGED <<input_file, output_file, FillsLocals>>

\* read_header: 0 for a short header, else header.number_of_fills
read_header(file) == IF file.state = "shorthdr" THEN 0 ELSE file.number_of_fills

\* lines 190-214: the output is created; no fills to process
FillsNothingToProcess ==
    /\ fills_pc = "start"
    /\ input_file.state # "noopen"
    /\ output_file.state # "blocked"
    /\ read_header(input_file) = 0
    /\ output_file' = [state |-> "closed", bars |-> <<>>]
    /\ fills_pc' = "done"
    /\ fills_exit_code' = 0
    /\ UNCHANGED <<input_file, FillsLocals>>

\* lines 190-203 and 96-101: the output is created and the loop entered
FillsStart ==
    /\ fills_pc = "start"
    /\ input_file.state = "ok"
    /\ output_file.state # "blocked"
    /\ read_header(input_file) > 0
    /\ output_file' = [state |-> "open", bars |-> <<>>]
    /\ fills_pc' = "loop"
    /\ UNCHANGED <<input_file, FillsLocals, fills_exit_code>>

\* write_bar: the BarRecord appended to the output
BarRecord(bar_time_utc, high_price, low_price, open_price, close_price, total_volume) ==
    [timestamp_sec |-> bar_time_utc, high |-> high_price, low |-> low_price,
     open |-> open_price, close |-> close_price, volume |-> total_volume]

CurrentBar ==
    BarRecord(current_bar_tp_utc, bar_high_price, bar_low_price, bar_open_price,
              bar_close_price, bar_total_volume)

Max(a, b) == IF a >= b THEN a ELSE b
Min(a, b) == IF a <= b THEN a ELSE b
Lowest(S) == CHOOSE x \in S : \A y \in S : x <= y
Highest(S) == CHOOSE x \in S : \A y \in S : x >= y

\* lines 122-126 and 130-134: a bar is started from the fill
StartBar(this_bar_tp_utc, current_trade_price, current_trade_qty) ==
    /\ current_bar_tp_utc' = this_bar_tp_utc
    /\ bar_open_price' = current_trade_price
    /\ bar_high_price' = current_trade_price
    /\ bar_low_price' = current_trade_price
    /\ bar_close_price' = current_trade_price
    /\ bar_total_volume' = Int32FromU32(current_trade_qty)

UpdateBarKeepsClose(current_trade_price, current_trade_qty) ==
    /\ bar_high_price' = Max(bar_high_price, current_trade_price)
    /\ bar_low_price' = Min(bar_low_price, current_trade_price)
    /\ bar_total_volume' = AddInt32U32(bar_total_volume, current_trade_qty)
    /\ UNCHANGED <<current_bar_tp_utc, bar_open_price, bar_close_price>>

\* lines 136-139: the fill extends the current bar
UpdateBar(current_trade_price, current_trade_qty) ==
    /\ bar_high_price' = Max(bar_high_price, current_trade_price)
    /\ bar_low_price' = Min(bar_low_price, current_trade_price)
    /\ bar_close_price' = current_trade_price
    /\ bar_total_volume' = AddInt32U32(bar_total_volume, current_trade_qty)
    /\ UNCHANGED <<current_bar_tp_utc, bar_open_price>>

\* lines 103-141: one iteration of the loop over the fills
ReadFill ==
    /\ fills_pc = "loop"
    /\ fill_i < input_file.number_of_fills
    /\ fill_i < Len(input_file.records)
    /\ LET data_record == input_file.records[fill_i + 1]
           current_trade_price == PriceOf(data_record.trade_price)
           current_trade_qty == data_record.trade_qty
           this_bar_tp_utc == floor_seconds(data_record.ts)
       IN  IF current_bar_tp_utc # 0 /\ this_bar_tp_utc # current_bar_tp_utc
           THEN /\ output_file' =
                      IF Int32Positive(bar_total_volume)
                      THEN [output_file EXCEPT !.bars = Append(@, CurrentBar)]
                      ELSE output_file
                /\ StartBar(this_bar_tp_utc, current_trade_price, current_trade_qty)
           ELSE IF current_bar_tp_utc = 0
           THEN /\ StartBar(this_bar_tp_utc, current_trade_price, current_trade_qty)
                /\ UNCHANGED output_file
           ELSE /\ UpdateBar(current_trade_price, current_trade_qty)
                /\ UNCHANGED output_file
    /\ fill_i' = fill_i + 1
    /\ UNCHANGED <<fills_pc, input_file, fills_exit_code>>

\* lines 103-108 and 143-148, 211-214: the loop ends at number_of_fills or at
\* a short read; the trailing bar is written and the files closed
FinishFills ==
    /\ fills_pc = "loop"
    /\ fill_i >= input_file.number_of_fills \/ fill_i >= Len(input_file.records)
    /\ output_file' =
          [state |-> "closed",
           bars |-> IF current_bar_tp_utc # 0 /\ Int32Positive(bar_total_volume)
                    THEN Append(output_file.bars, CurrentBar)
                    ELSE output_file.bars]
    /\ fills_pc' = "done"
    /\ fills_exit_code' = 0
    /\ UNCHANGED <<input_file, FillsLocals>>

FillsNext ==
    \/ FillsInputFails
    \/ FillsOutputFails
    \/ FillsNothingToProcess
    \/ FillsStart
    \/ ReadFill
    \/ FinishFills


\* --------------------------------------- properties of the trade-bar aggregator
\* the fills the loop can read: at most number_of_fills, at most the file
FillStream ==
    SubSeq(input_file.records, 1, Min(input_file.number_of_fills, Len(input_file.records)))
FillsSorted ==
    \A k \in 1..Len(FillStream) : k > 1 => FillStream[k - 1].ts <= FillStream[k].ts
Bars == output_file.bars
\* positions of the fills of one second among the first n fills
BucketFillsUpTo(sec, n) ==
    {k \in 1..n : FillStream[k].ts \div NANOS_PER_SEC = sec}
BucketFills(sec) == BucketFillsUpTo(sec, Len(FillStream))
FillBuckets == {FillStream[k].ts \div NANOS_PER_SEC : k \in 1..Len(FillStream)}
FillPrices(F) == {PriceOf(FillStream[k].trade_price) : k \in F}

\* the arithmetic sum of the quantities at the positions F (hi is unbounded)
RECURSIVE ExactSum(_)
ExactSum(F) ==
    IF F = {} THEN U32(0, 0)
    ELSE LET k == CHOOSE x \in F : TRUE
             r == ExactSum(F \ {k})
             lo == r.lo + FillStream[k].trade_qty.lo
         IN  U32(r.hi + FillStream[k].trade_qty.hi + (lo \div LimbBase), lo % LimbBase)
\* the int32_t v holds the non-negative number exact
Int32Holds(v, exact) == v.hi < LimbBase \div 2 /\ v = exact

\* C15: for a fill stream in timestamp order every emitted bar has open =
\* price of the first fill of its bucket, close = price of the last, high =
\* the maximum and low = the minimum of the bucket's prices, so that
\* low <= open, close <= high, and bar_ts_sec = floor(first fill ts / 10^9).
C15_BarIsOhlcOfBucket ==
    FillsSorted =>
        \A j \in 1..Len(Bars) :
            LET F == BucketFills(Bars[j].timestamp_sec)
            IN  /\ F # {}
                /\ Bars[j].timestamp_sec = FillStream[Lowest(F)].ts \div NANOS_PER_SEC
                /\ Bars[j].open = PriceOf(FillStream[Lowest(F)].trade_price)
                /\ Bars[j].close = PriceOf(FillStream[Highest(F)].trade_price)
                /\ Bars[j].high = Highest(FillPrices(F))
                /\ Bars[j].low = Lowest(FillPrices(F))
                /\ Bars[j].low <= Bars[j].open /\ Bars[j].open <= Bars[j].high
                /\ Bars[j].low <= Bars[j].close /\ Bars[j].close <= Bars[j].high

\* three fills of second 1 at the prices 2, 3, 1 made one bar
C15_Witness ==
    /\ fills_pc = "done"
    /\ Len(FillStream) = 3
    /\ Bars = << [timestamp_sec |-> 1, high |-> 3, low |-> 1, open |-> 2,
                  close |-> 1, volume |-> U32(0, 2)] >>

\* C16: for a fill stream in timestamp order, when the run ends exactly one
\* bar has been emitted for every one-second bucket whose fills have a total
\* quantity > 0 (the first fill's bucket and the trailing bucket included)
\* and none for any other bucket.
C16_OneBarPerTradedBucket ==
    (fills_pc = "done" /\ fills_exit_code = 0 /\ FillsSorted) =>
        LET traded == {s \in FillBuckets :
                          \E k \in BucketFills(s) : FillStream[k].trade_qty # Qty0}
        IN  /\ {Bars[j].timestamp_sec : j \in 1..Len(Bars)} = traded
            /\ Len(Bars) = Cardinality(traded)

\* C17: the volume of every emitted bar, and the accumulator of the bar in
\* progress, equal the arithmetic sum of the trade_qty of the bucket's fills.
C17_VolumeIsArithmeticSum ==
    FillsSorted =>
        /\ \A j \in 1..Len(Bars) :
              Int32Holds(Bars[j].volume, ExactSum(BucketFills(Bars[j].timestamp_sec)))
        /\ (fills_pc = "loop" /\ fill_i > 0 /\ current_bar_tp_utc # 0) =>
              Int32Holds(bar_total_volume,
                         ExactSum(BucketFillsUpTo(current_bar_tp_utc, fill_i)))


\* =========================================================================
\* Quote-bar aggregators (parse_book_tops.cpp, parse_merged_tops.cpp)
\* =========================================================================
\* a double of the price vectors: NAN or a number
NaN == <<"nan">>
Number(v) == <<"num", v>>
isnan(p) == p[1] = "nan"

\* BookTop of parse_book_tops.cpp: one array per field
BookTop(ts, levels) ==
    [ts |-> ts,
     bid_price |-> [k \in 1..3 |-> levels[k].bid_price],
     ask_price |-> [k \in 1..3 |-> levels[k].ask_price],
     bid_qty |-> [k \in 1..3 |-> levels[k].bid_qty],
     ask_qty |-> [k \in 1..3 |-> levels[k].ask_qty]]

\* TopsDataRecord of parse_merged_tops.cpp: one TopLevelData per level
TopsDataRecord(ts, levels) == [ts |-> ts, levels |-> levels]

\* timestamps: the last nanosecond of the seconds 0 and 1, the first of 2
QuoteTimestamps == {NANOS_PER_SEC - 1, 2 * NANOS_PER_SEC - 1, 2 * NANOS_PER_SEC}

\* the levels of the records: present quotes at different prices, levels
\* absent by price = 0, by qty = 0 and by both
QuoteShapes ==
    { <<Lv(2, 1, 3, 1), Lv(1, 1, 4, 1), NoLv>>,
      <<Lv(3, 1, 5, 1), Lv(2, 0, 0, 1), Lv(1, 1, 6, 1)>>,
      <<Lv(1, 1, 4, 1), Lv(0, 0, 5, 1), NoLv>> }

TopsRecordsOf(variant) ==
    {IF variant = "venue" THEN BookTop(t, l) ELSE TopsDataRecord(t, l) :
        t \in QuoteTimestamps, l \in QuoteShapes}

QuoteInit ==
    /\ quote_pc = "start"
    /\ \E variant \in {"venue", "merged"} : \E n \in 0..MaxTops :
       \E recs \in [1..n -> TopsRecordsOf(variant)] :
        \/ /\ n = 0
           /\ tops_file \in {[variant |-> variant, state |-> s, number_of_tops |-> 0,
                              records |-> <<>>] : s \in {"noopen", "shorthdr"}}
           /\ bar_files = [s \in Series |-> NoBarFile]
        \/ /\ \E c \in {n, n + 1} \cap (0..MaxTops) :
                 tops_file = [variant |-> variant, state |-> "ok",
                              number_of_tops |-> c, records |-> recs]
           /\ \E blocked \in IF n <= 1 THEN {{}, {<<"bid", 1>>}} ELSE {{}} :
                 bar_files = [s \in Series |->
                                 IF s \in blocked THEN BlockedBarFile ELSE NoBarFile]
    /\ QuoteLocalsInitial
    /\ MergeIdle
    /\ SnapIdle
    /\ FillsIdle
    /\ CodecIdle
    /\ CorrIdle
    /\ ImpactIdle
    /\ OverallIdle
    /\ PoolIdle
    /\ CacheIdle

QuoteLocals == <<timestamps, quote_bid_prices, quote_ask_prices, last_bid_timestamps,
                 last_ask_timestamps, series_done>>

\* the records a read loop gets: at most the header's count, at most the file
RecordsRead(file) ==
    SubSeq(file.records, 1, Min(file.number_of_tops, Len(file.records)))

\* book_top.bid_price[level] / 1e9, written in units of 1e-9
QuotePriceOf(price) == Number(price)

read_data_keeps_zero_qty(records) ==
    [ts |-> [k \in 1..Len(records) |-> records[k].ts],
     bid |-> [level \in 1..3 |-> [k \in 1..Len(records) |->
                 IF records[k].bid_price[level] # 0
                 THEN QuotePriceOf(records[k].bid_price[level]) ELSE NaN]],
     ask |-> [level \in 1..3 |-> [k \in 1..Len(records) |->
                 IF records[k].ask_price[level] # 0
                 THEN QuotePriceOf(records[k].ask_price[level]) ELSE NaN]]]

\* parse_book_tops.cpp read_data: the vectors filled from the records read
read_data(records) ==
    [ts |-> [k \in 1..Len(records) |-> records[k].ts],
     bid |-> [level \in 1..3 |-> [k \in 1..Len(records) |->
                 IF records[k].bid_price[level] # 0 /\ records[k].bid_qty[level] # 0
                 THEN QuotePriceOf(records[k].bid_price[level]) ELSE NaN]],
     ask |-> [level \in 1..3 |-> [k \in 1..Len(records) |->
                 IF records[k].ask_price[level] # 0 /\ records[k].ask_qty[level] # 0
                 THEN QuotePriceOf(records[k].ask_price[level]) ELSE NaN]]]

\* parse_merged_tops.cpp read_merged_data
read_merged_data(records) ==
    [ts |-> [k \in 1..Len(records) |-> records[k].ts],
     bid |-> [level \in 1..3 |-> [k \in 1..Len(records) |->
                 IF records[k].levels[level].bid_price # 0
                    /\ records[k].levels[level].bid_qty # 0
                 THEN QuotePriceOf(records[k].levels[level].bid_price) ELSE NaN]],
     ask |-> [level \in 1..3 |-> [k \in 1..Len(records) |->
                 IF records[k].levels[level].ask_price # 0
                    /\ records[k].levels[level].ask_qty # 0
                 THEN QuotePriceOf(records[k].levels[level].ask_price) ELSE NaN]]]

\* Bar {timestamp, open, high, low, close}
Bar(bar_time, open, high, low, close) ==
    [timestamp |-> bar_time, open |-> open, high |-> high, low |-> low, close |-> close]

\* lines 108-110 / 119-121: an observation joins the bar of its second
ExtendBar(bar, price) ==
    [bar EXCEPT !.high = Max(@, price), !.low = Min(@, price), !.close = price]

\* the fold with last_timestamp following the bars it creates
RECURSIVE BarsMapTrackingLast(_, _, _, _)
BarsMapTrackingLast(ts, prices, n, last_timestamp) ==
    IF n = 0 THEN <<>>
    ELSE LET bars == BarsMapTrackingLast(ts, prices, n - 1, last_timestamp)
             bar_time == ts[n] \div NANOS_PER_SEC
             last == IF DOMAIN bars = {} THEN last_timestamp ELSE Highest(DOMAIN bars)
         IN  IF isnan(prices[n]) THEN bars
             ELSE IF last # 0 /\ bar_time <= last + 1 THEN bars
             ELSE bars @@ (bar_time :> Bar(bar_time, prices[n][2], prices[n][2],
                                           prices[n][2], prices[n][2]))

\* parse_book_tops.cpp lines 92-112: the map bars after the first n
\* observations; last_timestamp is the caller's value
RECURSIVE BarsMap(_, _, _, _)
BarsMap(ts, prices, n, last_timestamp) ==
    IF n = 0 THEN <<>>
    ELSE LET bars == BarsMap(ts, prices, n - 1, last_timestamp)
             bar_time == ts[n] \div NANOS_PER_SEC
         IN  IF isnan(prices[n]) THEN bars
             ELSE IF last_timestamp # 0 /\ bar_time <= last_timestamp + 1 THEN bars
             ELSE IF bar_time \notin DOMAIN bars
                  THEN bars @@ (bar_time :> Bar(bar_time, prices[n][2], prices[n][2],
                                                prices[n][2], prices[n][2]))
                  ELSE [bars EXCEPT ![bar_time] = ExtendBar(@, prices[n][2])]

\* parse_merged_tops.cpp lines 105-123: the same map; the test of
\* last_timestamp_written has an empty body
RECURSIVE MergedBarsMap(_, _, _)
MergedBarsMap(ts, prices, n) ==
    IF n = 0 THEN <<>>
    ELSE LET bars == MergedBarsMap(ts, prices, n - 1)
             bar_time_sec == ts[n] \div NANOS_PER_SEC
         IN  IF isnan(prices[n]) THEN bars
             ELSE IF bar_time_sec \notin DOMAIN bars
                  THEN bars @@ (bar_time_sec :> Bar(bar_time_sec, prices[n][2], prices[n][2],
                                                    prices[n][2], prices[n][2]))
                  ELSE [bars EXCEPT ![bar_time_sec] = ExtendBar(@, prices[n][2])]

WrittenBarsDescending(bars) ==
    LET keys == Reverse(SortedSeqOf(DOMAIN bars))
    IN  [k \in 1..Len(keys) |-> bars[keys[k]]]

\* for (const auto &entry : bars) output.write(...): the map's key order
WrittenBars(bars) ==
    LET keys == SortedSeqOf(DOMAIN bars)
    IN  [k \in 1..Len(keys) |-> bars[keys[k]]]

\* parse_book_tops.cpp create_and_store_bars: the file and the caller's
\* last_timestamp after the call
create_and_store_bars(ts, prices, file, last_timestamp) ==
    LET bars == BarsMap(ts, prices, Len(ts), last_timestamp)
        written == WrittenBars(bars)
    IN  IF file.state = "blocked" THEN [file |-> file, last |-> last_timestamp]
        ELSE [file |-> [state |-> "closed", bars |-> written],
              last |-> IF written = <<>> THEN last_timestamp
                       ELSE written[Len(written)].timestamp]

\* parse_merged_tops.cpp create_and_store_bars
merged_create_and_store_bars(ts, prices, file, last_timestamp_written) ==
    LET bars == MergedBarsMap(ts, prices, Len(ts))
        written == WrittenBars(bars)
    IN  IF file.state = "blocked" THEN [file |-> file, last |-> last_timestamp_written]
        ELSE [file |-> [state |-> "closed", bars |-> written],
              last |-> IF written = <<>> THEN 0 ELSE written[Len(written)].timestamp]

\* the calls of one level have returned: files and last timestamps stored
LevelStored(level, bid, ask) ==
    /\ bar_files' = [bar_files EXCEPT ![<<"bid", level>>] = bid.file,
                                      ![<<"ask", level>>] = ask.file]
    /\ last_bid_timestamps' = [last_bid_timestamps EXCEPT ![level] = bid.last]
    /\ last_ask_timestamps' = [last_ask_timestamps EXCEPT ![level] = ask.last]
    /\ series_done' = series_done \cup {<<"bid", level>>, <<"ask", level>>}

\* lines 160-169 / 181-190: the input does not open or its header is short
QuoteInputFails ==
    /\ quote_pc = "start"
    /\ tops_file.state \in {"noopen", "shorthdr"}
    /\ quote_pc' = "done"
    /\ UNCHANGED <<tops_file, QuoteLocals, bar_files>>

\* parse_book_tops.cpp lines 171-175: read_data, then the bars
ReadData ==
    /\ quote_pc = "start"
    /\ tops_file.variant = "venue"
    /\ tops_file.state = "ok"
    /\ \E data \in {read_data(RecordsRead(tops_file))} :
          /\ timestamps' = data.ts
          /\ quote_bid_prices' = data.bid
          /\ quote_ask_prices' = data.ask
    /\ quote_pc' = "bars"
    /\ UNCHANGED <<tops_file, last_bid_timestamps, last_ask_timestamps, bar_files,
                   series_done>>

\* parse_merged_tops.cpp lines 192-205: with a count of 0 or no record read
\* the run ends before any bar file is opened
ReadMergedData ==
    /\ quote_pc = "start"
    /\ tops_file.variant = "merged"
    /\ tops_file.state = "ok"
    /\ IF tops_file.number_of_tops = 0 \/ RecordsRead(tops_file) = <<>>
       THEN /\ quote_pc' = "done"
            /\ UNCHANGED <<timestamps, quote_bid_prices, quote_ask_prices>>
       ELSE /\ \E data \in {read_merged_data(RecordsRead(tops_file))} :
                  /\ timestamps' = data.ts
                  /\ quote_bid_prices' = data.bid
                  /\ quote_ask_prices' = data.ask
            /\ quote_pc' = "bars"
    /\ UNCHANGED <<tops_file, last_bid_timestamps, last_ask_timestamps, bar_files,
                   series_done>>

\* parse_book_tops.cpp process_and_store_bars, one iteration of the loop
\* over the levels: the bid bars, then the ask bars
StoreBars ==
    /\ quote_pc = "bars"
    /\ tops_file.variant = "venue"
    /\ series_done # Series
    /\ LET level == Lowest({l \in 1..3 : <<"ask", l>> \notin series_done})
       IN  \E bid \in {create_and_store_bars(timestamps, quote_bid_prices[level],
                          bar_files[<<"bid", level>>], last_bid_timestamps[level])} :
           \E ask \in {create_and_store_bars(timestamps, quote_ask_prices[level],
                          bar_files[<<"ask", level>>], last_ask_timestamps[level])} :
               LevelStored(level, bid, ask)
    /\ UNCHANGED <<quote_pc, tops_file, timestamps, quote_bid_prices, quote_ask_prices>>

\* parse_merged_tops.cpp process_level, the body of the thread of one level;
\* the threads of the levels run in any order
StoreMergedBars ==
    /\ quote_pc = "bars"
    /\ tops_file.variant = "merged"
    /\ \E level \in 1..3 :
          /\ <<"ask", level>> \notin series_done
          /\ \E bid \in {IF quote_bid_prices[level] = <<>>
                         THEN [file |-> bar_files[<<"bid", level>>],
                               last |-> last_bid_timestamps[level]]
                         ELSE merged_create_and_store_bars(timestamps,
                                 quote_bid_prices[level], bar_files[<<"bid", level>>],
                                 last_bid_timestamps[level])} :
             \E ask \in {IF quote_ask_prices[level] = <<>>
                         THEN [file |-> bar_files[<<"ask", level>>],
                               last |-> last_ask_timestamps[level]]
                         ELSE merged_create_and_store_bars(timestamps,
                                 quote_ask_prices[level], bar_files[<<"ask", level>>],
                                 last_ask_timestamps[level])} :
                 LevelStored(level, bid, ask)
    /\ UNCHANGED <<quote_pc, tops_file, timestamps, quote_bid_prices, quote_ask_prices>>

\* every call has returned (the threads are joined)
QuoteFinish ==
    /\ quote_pc = "bars"
    /\ series_done = Series
    /\ quote_pc' = "done"
    /\ UNCHANGED <<tops_file, QuoteLocals, bar_files>>

QuoteNext ==
    \/ QuoteInputFails
    \/ ReadData
    \/ ReadMergedData
    \/ StoreBars
    \/ StoreMergedBars
    \/ QuoteFinish


\* --------------------------------------- properties of the quote-bar aggregators
QuoteRecords == RecordsRead(tops_file)
BarsOf(s) == bar_files[s].bars
\* the price and the quantity the k-th record holds for the series s
ObservedPrice(k, s) ==
    IF tops_file.variant = "venue"
    THEN (IF s[1] = "bid" THEN QuoteRecords[k].bid_price[s[2]]
                          ELSE QuoteRecords[k].ask_price[s[2]])
    ELSE (IF s[1] = "bid" THEN QuoteRecords[k].levels[s[2]].bid_price
                          ELSE QuoteRecords[k].levels[s[2]].ask_price)
ObservedQty(k, s) ==
    IF tops_file.variant = "venue"
    THEN (IF s[1] = "bid" THEN QuoteRecords[k].bid_qty[s[2]]
                          ELSE QuoteRecords[k].ask_qty[s[2]])
    ELSE (IF s[1] = "bid" THEN QuoteRecords[k].levels[s[2]].bid_qty
                          ELSE QuoteRecords[k].levels[s[2]].ask_qty)
\* positions of the present observations of the series s in the second sec
PresentIn(s, sec) ==
    {k \in 1..Len(QuoteRecords) :
        /\ ObservedPrice(k, s) # 0
        /\ ObservedQty(k, s) # 0
        /\ QuoteRecords[k].ts \div NANOS_PER_SEC = sec}
QuoteBuckets == {QuoteRecords[k].ts \div NANOS_PER_SEC : k \in 1..Len(QuoteRecords)}

\* C18: every quote-bar output file holds its bars in strictly increasing
\* bar_ts_sec order, hence at most one bar per bucket, for any input order.
C18_BarsStrictlyIncreasing ==
    \A s \in Series :
        \A k \in 1..Len(BarsOf(s)) :
            k > 1 => BarsOf(s)[k - 1].timestamp < BarsOf(s)[k].timestamp

\* the merged file's records came out of timestamp order, two of them in
\* one second, and the level-1 bid file holds one bar per second
C18_Witness ==
    /\ tops_file.variant = "merged"
    /\ quote_pc = "done"
    /\ Len(timestamps) = 3
    /\ timestamps[1] > timestamps[2]
    /\ timestamps[3] = timestamps[1]
    /\ Len(BarsOf(<<"bid", 1>>)) = 2

\* C19: in every written series an absent observation (price = 0 or
\* qty = 0) contributes nothing; each second with a present observation has
\* exactly one bar, whose open is the first present observation, close the
\* last, high the maximum and low the minimum; no other second has a bar.
C19_BarsOfPresentObservations ==
    \A s \in series_done :
        bar_files[s].state = "closed" =>
            LET seconds == {sec \in QuoteBuckets : PresentIn(s, sec) # {}}
            IN  /\ {BarsOf(s)[j].timestamp : j \in 1..Len(BarsOf(s))} = seconds
                /\ Len(BarsOf(s)) = Cardinality(seconds)
                /\ \A j \in 1..Len(BarsOf(s)) :
                      LET F == PresentIn(s, BarsOf(s)[j].timestamp)
                          P == {ObservedPrice(k, s) : k \in F}
                      IN  /\ BarsOf(s)[j].open = ObservedPrice(Lowest(F), s)
                          /\ BarsOf(s)[j].close = ObservedPrice(Highest(F), s)
                          /\ BarsOf(s)[j].high = Highest(P)
                          /\ BarsOf(s)[j].low = Lowest(P)

\* three records of one second: the level-2 ask series skips the absent
\* middle observation, the level-2 bid series the level absent by qty = 0,
\* and the level-3 bid series has one present observation only
C19_Witness ==
    /\ tops_file.variant = "venue"
    /\ quote_pc = "done"
    /\ Len(QuoteRecords) = 3
    /\ BarsOf(<<"ask", 2>>) = <<Bar(1, 4, 5, 4, 5)>>
    /\ BarsOf(<<"bid", 2>>) = <<Bar(1, 1, 1, 1, 1)>>
    /\ BarsOf(<<"bid", 3>>) = <<Bar(1, 1, 1, 1, 1)>>
    /\ BarsOf(<<"bid", 1>>) = <<Bar(1, 2, 3, 1, 1)>>

\* the observations and the last-written-bucket value of the series s
PricesOf(s) == IF s[1] = "bid" THEN quote_bid_prices[s[2]] ELSE quote_ask_prices[s[2]]
LastTimestampOf(s) ==
    IF s[1] = "bid" THEN last_bid_timestamps[s[2]] ELSE last_ask_timestamps[s[2]]

\* C37: in the per-venue quote-bar aggregator the last-written-bucket value
\* of a series is 0 until the bars of that series have been written, so the
\* test `bar_time <= last_timestamp + 1` skips no observation: the bars
\* written for a series are those of the fold without that test, the one
\* the merged-tops aggregator runs.
C37_DedupNeverSkips ==
    (tops_file.variant = "venue" /\ quote_pc \in {"bars", "done"}) =>
        \A s \in Series :
            /\ s \notin series_done => LastTimestampOf(s) = 0
            /\ (s \in series_done /\ bar_files[s].state # "blocked") =>
                  BarsOf(s) =
                      WrittenBars(MergedBarsMap(timestamps, PricesOf(s), Len(timestamps)))

\* a finished per-venue run: the level-1 bid series has a bar of two
\* observations of second 1 and a bar of the second that follows it
C37_Witness ==
    /\ tops_file.variant = "venue"
    /\ quote_pc = "done"
    /\ Len(BarsOf(<<"bid", 1>>)) = 2
    /\ BarsOf(<<"bid", 1>>)[1].timestamp = 1
    /\ BarsOf(<<"bid", 1>>)[1].high # BarsOf(<<"bid", 1>>)[1].low
    /\ BarsOf(<<"bid", 1>>)[2].timestamp = 2
    /\ LastTimestampOf(<<"bid", 1>>) = 2


\* =========================================================================
\* Decoders of the 88-byte tops record (merged_book_generation.cpp,
\* parse_book_tops.cpp, impact_base.cpp)
\* =========================================================================
\* an int64_t as its low and high 32-bit words
I64(lo, hi) == <<lo, hi>>

\* a top_level on disk: bid_nanos, ask_nanos, bid_qty, ask_qty
TopLevelValues ==
    { [bid_price |-> I64(0, 0), ask_price |-> I64(0, 0), bid_qty |-> 0, ask_qty |-> 0],
      [bid_price |-> I64(100, 0), ask_price |-> I64(101, 0), bid_qty |-> 10, ask_qty |-> 7],
      [bid_price |-> I64(99, 0), ask_price |-> I64(102, 0), bid_qty |-> 5, ask_qty |-> 5],
      [bid_price |-> I64(3, 1), ask_price |-> I64(4, 1), bid_qty |-> 1, ask_qty |-> 2] }

\* the 24 bytes of a top_level (packed): six words
TopLevelWords(l) ==
    <<l.bid_price[1], l.bid_price[2], l.ask_price[1], l.ask_price[2], l.bid_qty, l.ask_qty>>

\* the 88 bytes of a TopsRecord (packed): ts, seqno, three top_level blocks
TopsRecordWords(ts, seqno, levels) ==
    <<ts[1], ts[2], seqno[1], seqno[2]>>
        \o TopLevelWords(levels[1]) \o TopLevelWords(levels[2]) \o TopLevelWords(levels[3])

CodecInit ==
    /\ \E l1 \in TopLevelValues : \E l2 \in TopLevelValues : \E l3 \in TopLevelValues :
          tops_bytes = TopsRecordWords(I64(5, 0), I64(1, 0), <<l1, l2, l3>>)
    /\ tops_record = NotRead
    /\ book_top = NotRead
    /\ MergeIdle
    /\ SnapIdle
    /\ FillsIdle
    /\ QuoteIdle
    /\ CorrIdle
    /\ ImpactIdle
    /\ OverallIdle
    /\ PoolIdle
    /\ CacheIdle

\* the bytes read into a TopsRecord: level k is the k-th 24-byte block after
\* ts and seqno
DecodeTopsRecord(w) ==
    [k \in 1..3 |->
        [bid_price |-> I64(w[6 * k - 1], w[6 * k]),
         ask_price |-> I64(w[6 * k + 1], w[6 * k + 2]),
         bid_qty |-> w[6 * k + 3],
         ask_qty |-> w[6 * k + 4]]]

\* the bytes read into a BookTop: bid_price[3] at bytes 16..39, ask_price[3]
\* at 40..63, bid_qty[3] at 64..75, ask_qty[3] at 76..87
DecodeBookTop(w) ==
    [k \in 1..3 |->
        [bid_price |-> I64(w[2 * k + 3], w[2 * k + 4]),
         ask_price |-> I64(w[2 * k + 9], w[2 * k + 10]),
         bid_qty |-> w[16 + k],
         ask_qty |-> w[19 + k]]]

\* merged_book_generation.cpp read_next_record_with_timestamp_raw,
\* process_merged_tops.cpp line 261: the record is read as a TopsRecord
ReadAsTopsRecord ==
    /\ tops_bytes # <<>>
    /\ tops_record = NotRead
    /\ tops_record' = DecodeTopsRecord(tops_bytes)
    /\ UNCHANGED <<tops_bytes, book_top>>

\* parse_book_tops.cpp line 65, impact_base.cpp line 203: the record is read
\* as a BookTop
ReadAsBookTop ==
    /\ tops_bytes # <<>>
    /\ book_top = NotRead
    /\ book_top' = DecodeBookTop(tops_bytes)
    /\ UNCHANGED <<tops_bytes, tops_record>>

CodecNext ==
    \/ ReadAsTopsRecord
    \/ ReadAsBookTop

\* C20: for every 88-byte record of the on-disk layout the per-venue
\* decoders of the quote-bar aggregator and the impact calculator (BookTop)
\* return, for each level 1..3, the same bid_price, ask_price, bid_qty and
\* ask_qty as the decoder of the merger, the snapshot builder and the merged
\* impact calculator (TopsRecord).
C20_DecodersAgree ==
    (tops_record # NotRead /\ book_top # NotRead) =>
        \A k \in 1..3 :
            /\ book_top[k].bid_price = tops_record[k].bid_price
            /\ book_top[k].ask_price = tops_record[k].ask_price
            /\ book_top[k].bid_qty = tops_record[k].bid_qty
            /\ book_top[k].ask_qty = tops_record[k].ask_qty


\* =========================================================================
\* Correlation engines (price_correlation.cpp, correlation_generation.cpp)
\* =========================================================================
MIN_DATA_LENGTH == 10

\* output.write(&bar, sizeof(Bar)) of the quote-bar aggregators: the 40 bytes
\* of struct Bar as five 8-byte slots, in the order of its fields
BarBytes(bar) == <<bar.timestamp, bar.open, bar.high, bar.low, bar.close>>

\* std::memcpy(&bar_record, buffer, bar_size) into
\* TopsBarRecord {timestamp_sec, high, low, open, close}
TopsBarRecord(bytes) ==
    [timestamp_sec |-> bytes[1], high |-> bytes[2], low |-> bytes[3],
     open |-> bytes[4], close |-> bytes[5]]

\* The bars of the files handed to the engines: the bar of second sec closes
\* at the price sec, so that a closing price tells its position in the file;
\* open, high and low lie around the close in one of four ways.
BarShapes == {"flat", "up", "down", "wide"}
AggregatorBar(sec, shape) ==
    CASE shape = "flat" -> Bar(sec, sec, sec, sec, sec)
      [] shape = "up"   -> Bar(sec, sec - 1, sec, sec - 1, sec)
      [] shape = "down" -> Bar(sec, sec + 1, sec + 1, sec, sec)
      [] shape = "wide" -> Bar(sec, sec, sec + 1, sec - 1, sec)
BarFileOf(n, shape) == [sec \in 1..n |-> BarBytes(AggregatorBar(sec, shape))]

CorrInit ==
    /\ \E shape \in BarShapes : \E n1 \in 0..MaxBars : \E n2 \in 0..MaxBars :
          /\ corr_file1 = BarFileOf(n1, shape)
          /\ corr_file2 = BarFileOf(n2, shape)
    /\ trimmed_prices = <<<<>>, <<>>>>
    /\ single_pair_result = NoCorrelation
    /\ batch_result = NoCorrelation
    /\ engines_run = {}
    /\ MergeIdle
    /\ SnapIdle
    /\ FillsIdle
    /\ QuoteIdle
    /\ CodecIdle
    /\ ImpactIdle
    /\ OverallIdle
    /\ PoolIdle
    /\ CacheIdle

\* price_correlation.cpp read_bar_file_closing_prices<TopsBarRecord>: the
\* close of every complete record
read_bar_file_closing_prices(file) ==
    [k \in 1..Len(file) |-> TopsBarRecord(file[k]).close]

\* correlation_generation.cpp read_file_mmap_cached: the double at
\* offsetof(TopsBarRecord, close) of each of file_size / record_size records
read_file_mmap_cached(file) == [k \in 1..Len(file) |-> file[k][5]]

\* as the loop below, ignoring the step: the leading limit elements
RECURSIVE LeadingElements(_, _, _, _, _)
LeadingElements(list, idx, step, limit, kept) ==
    IF idx < Len(list) /\ Len(kept) < limit
    THEN LeadingElements(list, idx + 1, step, limit, Append(kept, list[idx + 1]))
    ELSE kept

\* price_correlation.cpp lines 112-114 / 118-120:
\* for (i = 0; i < len && kept.size() < limit; i += step) push_back(list[i])
RECURSIVE Decimated(_, _, _, _, _)
Decimated(list, idx, step, limit, kept) ==
    IF idx < Len(list) /\ Len(kept) < limit
    THEN Decimated(list, idx + step, step, limit, Append(kept, list[idx + 1]))
    ELSE kept

trim_to_same_length(list1, list2) ==
    LET len1 == Len(list1)
        len2 == Len(list2)
    IN  IF len1 = 0 \/ len2 = 0 THEN <<<<>>, <<>>>>
        ELSE IF len1 > len2
             THEN <<Decimated(list1, 0, Max(1, len1 \div len2), len2, <<>>), list2>>
        ELSE IF len2 > len1
             THEN <<list1, Decimated(list2, 0, Max(1, len2 \div len1), len1, <<>>)>>
        ELSE <<list1, list2>>

\* The coefficient is a function of the pairs (x[i], y[i]) that enter the
\* five sums; the model keeps the pairs.  The series of the model increase
\* strictly, so no variance term is below epsilon.
calculate_pearson_correlation(x, y) ==
    IF Len(x) = 0 \/ Len(x) # Len(y) \/ Len(x) < 2 THEN NoCorrelation
    ELSE [has_value |-> TRUE, pairs |-> [k \in 1..Len(x) |-> <<x[k], y[k]>>]]

\* price_correlation.cpp calculate_file_correlation(file1, file2, false)
SinglePairCorrelation ==
    /\ "single" \notin engines_run
    /\ LET prices1 == read_bar_file_closing_prices(corr_file1)
           prices2 == read_bar_file_closing_prices(corr_file2)
           trimmed == trim_to_same_length(prices1, prices2)
       IN  IF prices1 = <<>> \/ prices2 = <<>>
           THEN /\ single_pair_result' = NoCorrelation
                /\ UNCHANGED trimmed_prices
           ELSE /\ trimmed_prices' = trimmed
                /\ single_pair_result' =
                      IF Len(trimmed[1]) < MIN_DATA_LENGTH \/ Len(trimmed[2]) < MIN_DATA_LENGTH
                      THEN NoCorrelation
                      ELSE calculate_pearson_correlation(trimmed[1], trimmed[2])
    /\ engines_run' = engines_run \cup {"single"}
    /\ UNCHANGED <<corr_file1, corr_file2, batch_result>>

\* correlation_generation.cpp calculate_file_correlation(file1, file2, false)
BatchCorrelation ==
    /\ "batch" \notin engines_run
    /\ LET data1 == read_file_mmap_cached(corr_file1)
           data2 == read_file_mmap_cached(corr_file2)
           n == Min(Len(data1), Len(data2))
       IN  batch_result' =
              IF data1 = <<>> \/ data2 = <<>> THEN NoCorrelation
              ELSE IF n < 10 THEN NoCorrelation
              ELSE [has_value |-> TRUE, pairs |-> [k \in 1..n |-> <<data1[k], data2[k]>>]]
    /\ engines_run' = engines_run \cup {"batch"}
    /\ UNCHANGED <<corr_file1, corr_file2, trimmed_prices, single_pair_result>>

CorrNext ==
    \/ SinglePairCorrelation
    \/ BatchCorrelation

\* ------------------------------------- properties of the correlation engines
\* C21: a bar written by a quote-bar aggregator and decoded with the layout
\* of the correlation readers gives the bar_ts_sec, open, high, low and close
\* the aggregator computed.
C21_BarRoundTrip ==
    \A s \in Series : \A k \in 1..Len(BarsOf(s)) :
        LET bar == BarsOf(s)[k]
            decoded == TopsBarRecord(BarBytes(bar))
        IN  /\ decoded.timestamp_sec = bar.timestamp
            /\ decoded.open = bar.open
            /\ decoded.high = bar.high
            /\ decoded.low = bar.low
            /\ decoded.close = bar.close

\* the closing prices the aggregator wrote into a file
ClosesOf(file) == [k \in 1..Len(file) |-> file[k][5]]

\* C29: for two non-empty series of lengths L >= S, trim_to_same_length
\* returns the shorter series unchanged and S elements of the longer one, the
\* k-th (k = 0..S-1) being element k * floor(L / S), an index within the
\* series; series of equal length are returned unchanged.
C29_TrimDecimates ==
    ("single" \in engines_run /\ corr_file1 # <<>> /\ corr_file2 # <<>>) =>
        LET first_longer == Len(corr_file1) >= Len(corr_file2)
            longer == ClosesOf(IF first_longer THEN corr_file1 ELSE corr_file2)
            shorter == ClosesOf(IF first_longer THEN corr_file2 ELSE corr_file1)
            trimmed_longer == trimmed_prices[IF first_longer THEN 1 ELSE 2]
            trimmed_shorter == trimmed_prices[IF first_longer THEN 2 ELSE 1]
            L == Len(longer)
            S == Len(shorter)
        IN  /\ trimmed_shorter = shorter
            /\ Len(trimmed_longer) = S
            /\ \A k \in 0..(S - 1) :
                  /\ k * (L \div S) < L
                  /\ trimmed_longer[k + 1] = longer[k * (L \div S) + 1]
            /\ (L = S => trimmed_longer = longer)

\* lengths 20 and 10: stride 2, the last element kept is element 18
C29_Witness ==
    /\ "single" \in engines_run
    /\ Len(corr_file1) = 20
    /\ Len(corr_file2) = 10
    /\ Len(trimmed_prices[1]) = 10
    /\ Len(trimmed_prices[2]) = 10
    /\ trimmed_prices[1][10] = ClosesOf(corr_file1)[19]

\* C30: for two series of unequal length the batch engine pairs the same
\* elements as the single-pair tool (element k of the shorter series with
\* element k * floor(longer / shorter) of the longer one) and skips the pair
\* exactly when the single-pair tool does.
C30_EnginesPairSameElements ==
    (engines_run = {"single", "batch"} /\ Len(corr_file1) # Len(corr_file2)) =>
        /\ batch_result.has_value = single_pair_result.has_value
        /\ batch_result.pairs = single_pair_result.pairs

CorrSpec ==
    CorrInit /\ [][CorrNext /\ UNCHANGED <<mergeVars, snapVars, fillsVars, quoteVars, codecVars,
                                impactVars,
                                overallVars, poolVars, cacheVars>>]_vars

\* =========================================================================
\* Impact calculators (impact_base.cpp, merged_impact_base.cpp)
\* =========================================================================
\* Prices of this component are counted in units of 10^9 nanos, so that
\* static_cast<double>(price) / 1e9 is the number itself; an execution price
\* total / target is kept as the pair <<total, target>>, and two prices
\* of one run (one target) are equal iff their pairs are.

\* MergedBookTop of merged_impact_base.cpp: feed_id, ts, seqno, three TopLevel
MergedBookTop(feed_id, ts, levels) ==
    [feed_id |-> feed_id, ts |-> ts, first_level |-> levels[1],
     second_level |-> levels[2], third_level |-> levels[3]]

\* ExecutionResult; the default constructor gives NAN prices and 0 levels.
\* timestamp stands for the pair (timestamp, seqno), both copied from the input.
ExecutionResult(timestamp, bid_details, ask_details) ==
    [timestamp |-> timestamp,
     bid_exec_price |-> bid_details.price, bid_levels_consumed |-> bid_details.levels,
     ask_exec_price |-> ask_details.price, ask_levels_consumed |-> ask_details.levels]
DefaultExecutionResult ==
    [timestamp |-> 0, bid_exec_price |-> NaN, bid_levels_consumed |-> 0,
     ask_exec_price |-> NaN, ask_levels_consumed |-> 0]

\* the books of the input: the book of scenario 6 (5 at 100, 99 and 98); a
\* first level that fills 8 alone and an ask side with an absent (price 0)
\* second level in front of a third one; a bid side absent at level 1
\* (qty 0); sides too thin for the target; and a book other than the first
\* that executes 8 at the same prices and levels
ImpactShapes ==
    { <<Lv(100, 5, 101, 5), Lv(99, 5, 102, 5), Lv(98, 5, 103, 5)>>,
      <<Lv(100, 8, 101, 3), Lv(99, 5, 0, 4), Lv(98, 5, 103, 9)>>,
      <<Lv(100, 0, 101, 4), Lv(99, 9, 102, 4), Lv(98, 9, 103, 4)>>,
      <<Lv(100, 2, 101, 8), Lv(99, 2, 102, 1), Lv(98, 2, 103, 1)>>,
      <<Lv(100, 5, 101, 5), Lv(99, 7, 102, 9), Lv(98, 1, 0, 0)>> }
TargetQuantities == {8, 12}

\* the k-th record of the input
ImpactRecord(variant, k, levels) ==
    IF variant = "venue" THEN BookTop(k, levels) ELSE MergedBookTop(1, k, levels)

ImpactInit ==
    /\ impact_pc = "start"
    /\ \E variant \in {"venue", "merged"} : \E n \in 0..MaxBookTops :
       \E shapes \in [1..n -> ImpactShapes] :
       \E c \in {n - 1, n, n + 1} \cap (0..MaxBookTops) : \E tail \in BOOLEAN :
          /\ impact_input \in
                {[variant |-> variant, state |-> "ok", number_of_tops |-> c,
                  records |-> [k \in 1..n |-> ImpactRecord(variant, k, shapes[k])],
                  tail |-> tail]}
                \cup (IF n = 0 /\ c = 0 /\ ~tail
                      THEN {[variant |-> variant, state |-> s, number_of_tops |-> 0,
                             records |-> <<>>, tail |-> FALSE] : s \in {"noopen", "shorthdr"}}
                      ELSE {})
          /\ impact_output \in
                {[state |-> "absent", room |-> r, contents |-> <<>>] : r \in {1, MaxBookTops}}
                \cup (IF n = 0 /\ c = 0 /\ ~tail
                      THEN {[state |-> "blocked", room |-> 0, contents |-> <<>>]}
                      ELSE {})
    /\ target_quantity \in TargetQuantities
    /\ last_written_exec_result = DefaultExecutionResult
    /\ first_record_to_write = TRUE
    /\ records_written = 0
    /\ book_tops_processed = 0
    /\ impact_exit_code = -1
    /\ MergeIdle
    /\ SnapIdle
    /\ FillsIdle
    /\ QuoteIdle
    /\ CodecIdle
    /\ CorrIdle
    /\ OverallIdle
    /\ PoolIdle
    /\ CacheIdle

\* as the loop below, without the break at a filled target
RECURSIVE SideWalkPastFilled(_, _, _, _, _)
SideWalkPastFilled(target_exec_quantity, side_prices, side_quantities, lvl, walk) ==
    IF lvl > 3 THEN walk
    ELSE IF side_prices[lvl] = 0 \/ side_quantities[lvl] = 0 THEN walk
    ELSE LET qty_executed_this_level ==
                 Min(target_exec_quantity - walk.quantity_filled, side_quantities[lvl])
         IN  SideWalkPastFilled(target_exec_quantity, side_prices, side_quantities, lvl + 1,
                 [total_value_for_qty |-> walk.total_value_for_qty
                                            + qty_executed_this_level * side_prices[lvl],
                  quantity_filled |-> walk.quantity_filled + qty_executed_this_level,
                  levels_touched |-> walk.levels_touched + 1])

\* as the loop below, with continue in place of the break at an absent level
RECURSIVE SideWalkSkipsAbsent(_, _, _, _, _)
SideWalkSkipsAbsent(target_exec_quantity, side_prices, side_quantities, lvl, walk) ==
    IF lvl > 3 \/ walk.quantity_filled = target_exec_quantity THEN walk
    ELSE IF side_prices[lvl] = 0 \/ side_quantities[lvl] = 0
         THEN SideWalkSkipsAbsent(target_exec_quantity, side_prices, side_quantities,
                                  lvl + 1, walk)
    ELSE LET qty_executed_this_level ==
                 Min(target_exec_quantity - walk.quantity_filled, side_quantities[lvl])
         IN  SideWalkSkipsAbsent(target_exec_quantity, side_prices, side_quantities, lvl + 1,
                 [total_value_for_qty |-> walk.total_value_for_qty
                                            + qty_executed_this_level * side_prices[lvl],
                  quantity_filled |-> walk.quantity_filled + qty_executed_this_level,
                  levels_touched |-> walk.levels_touched + 1])

\* calculate_side_execution, the loop over the levels (i = lvl - 1): walk is
\* (total_value_for_qty, quantity_filled, levels_touched) before level lvl
RECURSIVE SideWalk(_, _, _, _, _)
SideWalk(target_exec_quantity, side_prices, side_quantities, lvl, walk) ==
    IF lvl > 3 \/ walk.quantity_filled = target_exec_quantity THEN walk
    ELSE IF side_prices[lvl] = 0 \/ side_quantities[lvl] = 0 THEN walk
    ELSE LET qty_executed_this_level ==
                 Min(target_exec_quantity - walk.quantity_filled, side_quantities[lvl])
         IN  SideWalk(target_exec_quantity, side_prices, side_quantities, lvl + 1,
                 [total_value_for_qty |-> walk.total_value_for_qty
                                            + qty_executed_this_level * side_prices[lvl],
                  quantity_filled |-> walk.quantity_filled + qty_executed_this_level,
                  levels_touched |-> walk.levels_touched + 1])

calculate_side_execution(target_exec_quantity, side_prices, side_quantities) ==
    IF target_exec_quantity = 0 THEN [price |-> NaN, levels |-> 0]
    ELSE LET walk == SideWalk(target_exec_quantity, side_prices, side_quantities, 1,
                              [total_value_for_qty |-> 0, quantity_filled |-> 0,
                               levels_touched |-> 0])
         IN  IF walk.quantity_filled < target_exec_quantity
             THEN [price |-> NaN, levels |-> walk.levels_touched]
             ELSE [price |-> Number(<<walk.total_value_for_qty, target_exec_quantity>>),
                   levels |-> walk.levels_touched]

\* r1.p != r2.p of IEEE doubles: a NAN differs from everything
results_changed_by_plain_inequality(r1, r2) ==
    LET differ(p, q) == isnan(p) \/ isnan(q) \/ p # q
    IN  \/ differ(r1.bid_exec_price, r2.bid_exec_price)
        \/ r1.bid_levels_consumed # r2.bid_levels_consumed
        \/ differ(r1.ask_exec_price, r2.ask_exec_price)
        \/ r1.ask_levels_consumed # r2.ask_levels_consumed

results_meaningfully_changed(r1, r2) ==
    LET bid_price_diff ==
            \/ isnan(r1.bid_exec_price) # isnan(r2.bid_exec_price)
            \/ (~isnan(r1.bid_exec_price) /\ r1.bid_exec_price # r2.bid_exec_price)
        ask_price_diff ==
            \/ isnan(r1.ask_exec_price) # isnan(r2.ask_exec_price)
            \/ (~isnan(r1.ask_exec_price) /\ r1.ask_exec_price # r2.ask_exec_price)
    IN  \/ bid_price_diff
        \/ r1.bid_levels_consumed # r2.bid_levels_consumed
        \/ ask_price_diff
        \/ r1.ask_levels_consumed # r2.ask_levels_consumed

\* impact_base.cpp lines 210-220: the result of one BookTop
VenueExecResult(current_book_top) ==
    ExecutionResult(current_book_top.ts,
        calculate_side_execution(target_quantity, current_book_top.bid_price,
                                 current_book_top.bid_qty),
        calculate_side_execution(target_quantity, current_book_top.ask_price,
                                 current_book_top.ask_qty))

\* merged_impact_base.cpp lines 237-266: the result of one MergedBookTop
MergedExecResult(current_book_top) ==
    LET bid_prices == <<current_book_top.first_level.bid_price,
                        current_book_top.second_level.bid_price,
                        current_book_top.third_level.bid_price>>
        ask_prices == <<current_book_top.first_level.ask_price,
                        current_book_top.second_level.ask_price,
                        current_book_top.third_level.ask_price>>
        bid_quantities == <<current_book_top.first_level.bid_qty,
                            current_book_top.second_level.bid_qty,
                            current_book_top.third_level.bid_qty>>
        ask_quantities == <<current_book_top.first_level.ask_qty,
                            current_book_top.second_level.ask_qty,
                            current_book_top.third_level.ask_qty>>
    IN  ExecutionResult(current_book_top.ts,
            calculate_side_execution(target_quantity, bid_prices, bid_quantities),
            calculate_side_execution(target_quantity, ask_prices, ask_quantities))

\* the input cannot be opened or is shorter than a header: return 1
ImpactInputFails ==
    /\ impact_pc = "start"
    /\ impact_input.state \in {"noopen", "shorthdr"}
    /\ impact_pc' = "done"
    /\ impact_exit_code' = 1
    /\ UNCHANGED <<impact_input, target_quantity, impact_output, last_written_exec_result,
                   first_record_to_write, records_written, book_tops_processed>>

\* the impactbase directory or the output file cannot be created: return 1
ImpactOutputFails ==
    /\ impact_pc = "start"
    /\ impact_input.state = "ok"
    /\ impact_output.state = "blocked"
    /\ impact_pc' = "done"
    /\ impact_exit_code' = 1
    /\ UNCHANGED <<impact_input, target_quantity, impact_output, last_written_exec_result,
                   first_record_to_write, records_written, book_tops_processed>>

\* the header is read and the output opened with std::ios::trunc; nothing is
\* written before the loop
ImpactStart ==
    /\ impact_pc = "start"
    /\ impact_input.state = "ok"
    /\ impact_output.state # "blocked"
    /\ impact_output' = [impact_output EXCEPT !.state = "open"]
    /\ impact_pc' = "loop"
    /\ UNCHANGED <<impact_input, target_quantity, last_written_exec_result,
                   first_record_to_write, records_written, book_tops_processed,
                   impact_exit_code>>

\* the body of the loop after the read of a complete record
ProcessExecResult(current_exec_result) ==
    IF first_record_to_write
          \/ results_meaningfully_changed(last_written_exec_result, current_exec_result)
    THEN IF impact_output.room = 0
         THEN \* output_file.write fails: return 1
              /\ impact_output' = [impact_output EXCEPT !.state = "failed"]
              /\ impact_pc' = "done"
              /\ impact_exit_code' = 1
              /\ UNCHANGED <<last_written_exec_result, first_record_to_write,
                             records_written, book_tops_processed>>
         ELSE /\ impact_output' = [impact_output EXCEPT
                                      !.room = @ - 1,
                                      !.contents = Append(@, current_exec_result)]
              /\ last_written_exec_result' = current_exec_result
              /\ first_record_to_write' = FALSE
              /\ records_written' = records_written + 1
              /\ book_tops_processed' = book_tops_processed + 1
              /\ UNCHANGED <<impact_pc, impact_exit_code>>
    ELSE /\ book_tops_processed' = book_tops_processed + 1
         /\ UNCHANGED <<impact_output, last_written_exec_result, first_record_to_write,
                        records_written, impact_pc, impact_exit_code>>

\* impact_base.cpp lines 202-231: one iteration of the loop
ProcessBookTop ==
    /\ impact_pc = "loop"
    /\ impact_input.variant = "venue"
    /\ book_tops_processed < impact_input.number_of_tops
    /\ book_tops_processed < Len(impact_input.records)
    /\ ProcessExecResult(VenueExecResult(impact_input.records[book_tops_processed + 1]))
    /\ UNCHANGED <<impact_input, target_quantity>>

\* merged_impact_base.cpp lines 229-277: one iteration of the loop
ProcessMergedBookTop ==
    /\ impact_pc = "loop"
    /\ impact_input.variant = "merged"
    /\ book_tops_processed < impact_input.number_of_tops
    /\ book_tops_processed < Len(impact_input.records)
    /\ ProcessExecResult(MergedExecResult(impact_input.records[book_tops_processed + 1]))
    /\ UNCHANGED <<impact_input, target_quantity>>

\* the loop ends at number_of_tops or breaks at a short read; both files
\* are closed: return 0
ImpactFinish ==
    /\ impact_pc = "loop"
    /\ \/ book_tops_processed >= impact_input.number_of_tops
       \/ book_tops_processed >= Len(impact_input.records)
    /\ impact_output' = [impact_output EXCEPT !.state = "closed"]
    /\ impact_pc' = "done"
    /\ impact_exit_code' = 0
    /\ UNCHANGED <<impact_input, target_quantity, last_written_exec_result,
                   first_record_to_write, records_written, book_tops_processed>>

ImpactNext ==
    \/ ImpactInputFails
    \/ ImpactOutputFails
    \/ ImpactStart
    \/ ProcessBookTop
    \/ ProcessMergedBookTop
    \/ ImpactFinish

\* -------------------------------------- properties of the impact calculators
ImpactWritten == impact_output.contents
ImpactSides == {"bid", "ask"}
\* price and quantity of level lvl on a side of the k-th input record
InputLevel(k, lvl) ==
    LET rec == impact_input.records[k]
    IN  IF impact_input.variant = "venue"
        THEN Lv(rec.bid_price[lvl], rec.bid_qty[lvl], rec.ask_price[lvl], rec.ask_qty[lvl])
        ELSE <<rec.first_level, rec.second_level, rec.third_level>>[lvl]
InputPrice(k, side, lvl) ==
    IF side = "bid" THEN InputLevel(k, lvl).bid_price ELSE InputLevel(k, lvl).ask_price
InputQty(k, side, lvl) ==
    IF side = "bid" THEN InputLevel(k, lvl).bid_qty ELSE InputLevel(k, lvl).ask_qty
\* the number of present levels in front of the first absent one
LeadingPresent(k, side) ==
    Cardinality({lvl \in 1..3 :
        \A j \in 1..lvl : InputPrice(k, side, j) # 0 /\ InputQty(k, side, j) # 0})
RECURSIVE QtyUpTo(_, _, _)
QtyUpTo(k, side, lvl) ==
    IF lvl = 0 THEN 0 ELSE InputQty(k, side, lvl) + QtyUpTo(k, side, lvl - 1)
LeadingQty(k, side) == QtyUpTo(k, side, LeadingPresent(k, side))
\* min(remaining, level_qty), remaining being what the levels in front left
ConsumedAt(k, side, lvl) ==
    Min(Max(target_quantity - QtyUpTo(k, side, lvl - 1), 0), InputQty(k, side, lvl))
RECURSIVE ValueUpTo(_, _, _)
ValueUpTo(k, side, lvl) ==
    IF lvl = 0 THEN 0
    ELSE ConsumedAt(k, side, lvl) * InputPrice(k, side, lvl) + ValueUpTo(k, side, lvl - 1)
PriceOfSide(w, side) == IF side = "bid" THEN w.bid_exec_price ELSE w.ask_exec_price
LevelsOfSide(w, side) ==
    IF side = "bid" THEN w.bid_levels_consumed ELSE w.ask_levels_consumed

\* C22: when the leading present levels of a side hold at least the target
\* quantity Q > 0, the quantities min(remaining, level_qty) taken at the
\* levels 1..3 sum to Q, the price is their value divided by Q, and
\* levels_consumed is in 1..3 and counts the levels that gave quantity.
C22_WalkFillsTarget ==
    \A j \in 1..Len(ImpactWritten) : \A side \in ImpactSides :
        LET w == ImpactWritten[j]
            k == w.timestamp
        IN  LeadingQty(k, side) >= target_quantity =>
                /\ target_quantity > 0
                /\ ConsumedAt(k, side, 1) + ConsumedAt(k, side, 2) + ConsumedAt(k, side, 3)
                      = target_quantity
                /\ PriceOfSide(w, side) = Number(<<ValueUpTo(k, side, 3), target_quantity>>)
                /\ LevelsOfSide(w, side) \in 1..3
                /\ LevelsOfSide(w, side)
                      = Cardinality({lvl \in 1..3 : ConsumedAt(k, side, lvl) > 0})

\* scenario 6: bids 5 at 100, 99 and 98, Q = 8: 797 / 8 over 2 levels
C22_Witness ==
    /\ target_quantity = 8
    /\ \E j \in 1..Len(ImpactWritten) :
          /\ \A lvl \in 1..3 : /\ InputQty(ImpactWritten[j].timestamp, "bid", lvl) = 5
                               /\ InputPrice(ImpactWritten[j].timestamp, "bid", lvl) = 101 - lvl
          /\ ImpactWritten[j].bid_exec_price = Number(<<797, 8>>)
          /\ ImpactWritten[j].bid_levels_consumed = 2

\* C23: the walk stops at the first absent level: no level behind it gives
\* quantity, and a target the leading present levels cannot fill gives NaN
\* with the number of those levels (0 when level 1 is absent).
C23_WalkStopsAtAbsentLevel ==
    \A j \in 1..Len(ImpactWritten) : \A side \in ImpactSides :
        LET w == ImpactWritten[j]
            k == w.timestamp
            present == LeadingPresent(k, side)
        IN  /\ LevelsOfSide(w, side) <= present
            /\ ~isnan(PriceOfSide(w, side)) <=> LeadingQty(k, side) >= target_quantity
            /\ ~isnan(PriceOfSide(w, side)) =>
                  PriceOfSide(w, side)[2][1] = ValueUpTo(k, side, present)
            /\ LeadingQty(k, side) < target_quantity =>
                  /\ isnan(PriceOfSide(w, side))
                  /\ LevelsOfSide(w, side) = present

\* an ask side with 3 at level 1, level 2 absent and 9 at level 3 gives
\* (NaN, 1); a bid side with level 1 absent gives (NaN, 0)
C23_Witness ==
    /\ \E j \in 1..Len(ImpactWritten) :
          /\ InputPrice(ImpactWritten[j].timestamp, "ask", 2) = 0
          /\ InputQty(ImpactWritten[j].timestamp, "ask", 3) = 9
          /\ isnan(ImpactWritten[j].ask_exec_price)
          /\ ImpactWritten[j].ask_levels_consumed = 1
    /\ \E j \in 1..Len(ImpactWritten) :
          /\ InputQty(ImpactWritten[j].timestamp, "bid", 1) = 0
          /\ InputQty(ImpactWritten[j].timestamp, "bid", 2) = 9
          /\ isnan(ImpactWritten[j].bid_exec_price)
          /\ ImpactWritten[j].bid_levels_consumed = 0

\* the four compared fields agree, two NaN prices counting as equal
SamePrice(p, q) == (isnan(p) /\ isnan(q)) \/ (~isnan(p) /\ ~isnan(q) /\ p = q)
SameFour(a, b) ==
    /\ SamePrice(a.bid_exec_price, b.bid_exec_price)
    /\ a.bid_levels_consumed = b.bid_levels_consumed
    /\ SamePrice(a.ask_exec_price, b.ask_exec_price)
    /\ a.ask_levels_consumed = b.ask_levels_consumed
\* the result of the k-th input
ResultOfInput(k) ==
    IF impact_input.variant = "venue" THEN VenueExecResult(impact_input.records[k])
    ELSE MergedExecResult(impact_input.records[k])
WrittenInputs == {ImpactWritten[j].timestamp : j \in 1..Len(ImpactWritten)}
\* the record written last in front of input k
LastWrittenBefore(k) ==
    ImpactWritten[Highest({j \in 1..Len(ImpactWritten) : ImpactWritten[j].timestamp < k})]

\* C24: the first input is written; a later input is written iff one of bid
\* price, bid levels, ask price, ask levels differs from the record written
\* last, two NaN prices counting as equal; so no two consecutive written
\* records agree on the four fields.
C24_WrittenIffChanged ==
    /\ book_tops_processed >= 1 => 1 \in WrittenInputs
    /\ \A k \in 2..book_tops_processed :
          /\ k \in WrittenInputs <=> ~SameFour(ResultOfInput(k), LastWrittenBefore(k))
    /\ \A j \in 1..Len(ImpactWritten) : ImpactWritten[j] = ResultOfInput(ImpactWritten[j].timestamp)
    /\ \A j \in 1..(Len(ImpactWritten) - 1) : ~SameFour(ImpactWritten[j], ImpactWritten[j + 1])

\* three inputs, the second one unfillable on the bid side as the first and
\* not written, the third written
C24_Witness ==
    /\ book_tops_processed = 3
    /\ WrittenInputs = {1, 3}
    /\ isnan(ResultOfInput(1).bid_exec_price)
    /\ isnan(ResultOfInput(2).bid_exec_price)

\* C25: the impact output starts with a FileHeader whose count, once the
\* records are streamed, is the number of impact records written after it.
C25_ImpactHeaderPatched ==
    (impact_pc = "done" /\ impact_exit_code = 0) =>
        /\ ImpactWritten # <<>>
        /\ "count" \in DOMAIN ImpactWritten[1]
        /\ ImpactWritten[1].count = Len(ImpactWritten) - 1

\* C26: when the count of the input header differs from the number of
\* complete records present, the calculator processes every complete record.
C26_EveryCompleteRecordProcessed ==
    (impact_pc = "done" /\ impact_exit_code = 0) =>
        book_tops_processed = Len(impact_input.records)

ImpactSpec ==
    ImpactInit /\ [][ImpactNext /\ UNCHANGED <<mergeVars, snapVars, fillsVars, quoteVars, codecVars,
                                corrVars, overallVars, poolVars, cacheVars>>]_vars

\* =========================================================================
\* Overall score of a symbol pair (price_correlation.cpp,
\* correlation_generation.cpp: calculate_weighted_correlation)
\* =========================================================================
RECURSIVE Gcd(_, _)
Gcd(a, b) == IF b = 0 THEN a ELSE Gcd(b, a % b)

Abs(x) == IF x < 0 THEN -x ELSE x

\* A double is kept as the rational it stands for, in lowest terms with a
\* positive denominator.  The weights are powers of two and the component
\* correlations lie on a grid, so sums and products are exact.
Rat(n, d) ==
    LET g == Gcd(Abs(n), Abs(d))
    IN  IF d < 0 THEN <<(0 - n) \div g, (0 - d) \div g>> ELSE <<n \div g, d \div g>>
RatAdd(a, b) == Rat(a[1] * b[2] + b[1] * a[2], a[2] * b[2])
RatMul(a, b) == Rat(a[1] * b[1], a[2] * b[2])
RatDiv(a, b) == Rat(a[1] * b[2], a[2] * b[1])
\* r < 1 / scale, for a positive integer scale
RatBelow(r, scale) == r[1] <= 0 \/ scale <= (r[2] - 1) \div r[1]

\* std::optional<double>
Nullopt == <<>>
Some(v) == <<v>>

\* the seven series of a symbol (correlation_generation.cpp line 370; the
\* seven push_back of price_correlation.cpp lines 269-275)
FileTypes == <<"fills", "L1_bid", "L1_ask", "L2_bid", "L2_ask", "L3_bid", "L3_ask">>

\* std::vector<double> weights(correlations.size(), 0.125)
ComponentWeights == [k \in 1..Len(FileTypes) |-> Rat(1, 8)]

\* a component correlation: none, or a value of [-1, 1]
CorrValues == {Rat(k, MaxCorrSteps) : k \in (0 - MaxCorrSteps)..MaxCorrSteps}
ComponentCorrelations == {Nullopt} \cup {Some(c) : c \in CorrValues}

OverallInit ==
    /\ overall_engine \in {"single", "batch"}
    /\ correlations_list \in [1..Len(FileTypes) -> ComponentCorrelations]
    /\ overall_correlation = NotRun
    /\ overall_row = <<>>
    /\ MergeIdle
    /\ SnapIdle
    /\ FillsIdle
    /\ QuoteIdle
    /\ CodecIdle
    /\ CorrIdle
    /\ ImpactIdle
    /\ PoolIdle
    /\ CacheIdle

NoSums == [weighted_sum |-> Rat(0, 1), total_weight |-> Rat(0, 1),
           has_valid_correlation |-> FALSE]

\* the loop with the weight of every component added, valid or not
RECURSIVE WeightedSumsOverAllWeights(_, _, _)
WeightedSumsOverAllWeights(correlations, weights, n) ==
    IF n = 0 THEN NoSums
    ELSE LET acc == WeightedSumsOverAllWeights(correlations, weights, n - 1)
         IN  IF correlations[n] # Nullopt
             THEN [weighted_sum |-> RatAdd(acc.weighted_sum,
                                          RatMul(correlations[n][1], weights[n])),
                   total_weight |-> RatAdd(acc.total_weight, weights[n]),
                   has_valid_correlation |-> TRUE]
             ELSE [acc EXCEPT !.total_weight = RatAdd(@, weights[n])]

\* price_correlation.cpp lines 212-222, correlation_generation.cpp lines
\* 77-85: the sums after the first n components
RECURSIVE WeightedSums(_, _, _)
WeightedSums(correlations, weights, n) ==
    IF n = 0 THEN NoSums
    ELSE LET acc == WeightedSums(correlations, weights, n - 1)
         IN  IF correlations[n] # Nullopt
             THEN [weighted_sum |-> RatAdd(acc.weighted_sum,
                                          RatMul(correlations[n][1], weights[n])),
                   total_weight |-> RatAdd(acc.total_weight, weights[n]),
                   has_valid_correlation |-> TRUE]
             ELSE acc

\* price_correlation.cpp calculate_weighted_correlation
calculate_weighted_correlation(correlations, weights) ==
    IF Len(correlations) # Len(weights) THEN Nullopt
    ELSE LET sums == WeightedSums(correlations, weights, Len(correlations))
         IN  IF \/ ~sums.has_valid_correlation
                \/ RatBelow(<<Abs(sums.total_weight[1]), sums.total_weight[2]>>, 1000000000)
             THEN Nullopt
             ELSE Some(RatDiv(sums.weighted_sum, sums.total_weight))

\* correlation_generation.cpp calculate_weighted_correlation
batch_calculate_weighted_correlation(correlations, weights) ==
    IF Len(correlations) = 0 \/ Len(correlations) # Len(weights) THEN Nullopt
    ELSE LET sums == WeightedSums(correlations, weights, Len(correlations))
         IN  IF RatBelow(sums.total_weight, 10000000) THEN Nullopt
             ELSE Some(RatDiv(sums.weighted_sum, sums.total_weight))

\* std::round(v * 10000.0) / 10000.0: halves away from zero
Round4(v) ==
    LET magnitude == (2 * Abs(v[1]) * 10000 + v[2]) \div (2 * v[2])
    IN  Rat(IF v[1] < 0 THEN 0 - magnitude ELSE magnitude, 10000)

\* price_correlation.cpp main, lines 268-279
SinglePairOverall ==
    /\ overall_engine = "single"
    /\ overall_correlation = NotRun
    /\ overall_correlation' =
          calculate_weighted_correlation(correlations_list, ComponentWeights)
    /\ UNCHANGED <<overall_engine, correlations_list, overall_row>>

\* correlation_generation.cpp lines 383-389: the score of the pair and the
\* row pushed for it
BatchOverall ==
    /\ overall_engine = "batch"
    /\ overall_correlation = NotRun
    /\ \E overall_opt \in {batch_calculate_weighted_correlation(correlations_list,
                                                                ComponentWeights)} :
          /\ overall_correlation' = overall_opt
          /\ overall_row' = IF overall_opt # Nullopt
                            THEN Append(overall_row, Round4(overall_opt[1]))
                            ELSE overall_row
    /\ UNCHANGED <<overall_engine, correlations_list>>

OverallNext ==
    \/ SinglePairOverall
    \/ BatchOverall

OverallSpec ==
    OverallInit /\ [][OverallNext /\ UNCHANGED <<mergeVars, snapVars, fillsVars, quoteVars,
                                codecVars, corrVars, impactVars, poolVars, cacheVars>>]_vars

\* ------------------------------------------- properties of the overall score
ValidComponents == {k \in 1..Len(correlations_list) : correlations_list[k] # Nullopt}

RECURSIVE SumOfValid(_)
SumOfValid(n) ==
    IF n = 0 THEN Rat(0, 1)
    ELSE IF correlations_list[n] # Nullopt
         THEN RatAdd(SumOfValid(n - 1), correlations_list[n][1])
         ELSE SumOfValid(n - 1)

\* C31: with seven components of weight 0.125, the overall score is the sum
\* of the valid components times their weight divided by the sum of the
\* weights of the valid components, that is the arithmetic mean of the valid
\* components; there is no overall score, and no row, exactly when no
\* component is valid.
C31_OverallIsMeanOfValid ==
    overall_correlation # NotRun =>
        /\ overall_correlation = Nullopt <=> ValidComponents = {}
        /\ ValidComponents # {} =>
              RatMul(overall_correlation[1], Rat(Cardinality(ValidComponents), 1)) =
                  SumOfValid(Len(correlations_list))
        /\ overall_engine = "batch" => (overall_row = <<>> <=> ValidComponents = {})

\* three valid components 1, 1 and -1 among seven: the batch engine
\* scores 1/3, neither their sum 1 nor a division by 7 or 8
C31_Witness ==
    /\ overall_engine = "batch"
    /\ Cardinality(ValidComponents) = 3
    /\ SumOfValid(Len(correlations_list)) = Rat(1, 1)
    /\ overall_correlation = Some(Rat(1, 3))
    /\ overall_row = <<Rat(3333, 10000)>>

\* =========================================================================
\* Worker pool of the batch engine (correlation_generation.cpp,
\* compute_overall_correlations_cpp)
\* =========================================================================
\* A symbol is its position 0..valid_symbols-1 in the vector.  A pair has
\* an overall score unless one of its symbols is flat: a constant series
\* has no correlation (line 289), and a symbol whose seven series are
\* constant leaves all seven components without a value.
WorkerStart ==
    [pc |-> "claim", batch_start |-> 0, batch_end |-> 0, pair_idx |-> 0,
     local_results |-> <<>>, local_completed |-> 0, evaluated |-> <<>>]

PoolInit ==
    /\ pool_pc = "start"
    /\ valid_symbols \in 0..MaxSymbols
    /\ flat_symbols \in {{}} \cup {{s} : s \in {0} \cap (0..(valid_symbols - 1))}
    /\ num_threads \in 1..MaxThreads
    /\ current_pair = 0
    /\ completed_pairs = 0
    /\ workers = <<>>
    /\ results = <<>>
    /\ MergeIdle
    /\ SnapIdle
    /\ FillsIdle
    /\ QuoteIdle
    /\ CodecIdle
    /\ CorrIdle
    /\ ImpactIdle
    /\ OverallIdle
    /\ CacheIdle

\* line 313
total_pairs == (valid_symbols * (valid_symbols - 1)) \div 2

\* line 322
BATCH_SIZE == Max(32, Min(256, total_pairs \div (num_threads * 16)))

\* the walk without `row_size--`
RECURSIVE RowWalkFixedRowSize(_, _, _)
RowWalkFixedRowSize(temp_pair_idx, row, row_size) ==
    IF temp_pair_idx >= row_size
    THEN RowWalkFixedRowSize(temp_pair_idx - row_size, row + 1, row_size)
    ELSE <<row, row + 1 + temp_pair_idx>>

\* lines 351-360: the loop that turns a linear index into (i, j); row is the
\* variable i of the source.  A row_size of 0 wraps to SIZE_MAX in the
\* decrement and ends the loop one row further.
RECURSIVE RowWalk(_, _, _)
RowWalk(temp_pair_idx, row, row_size) ==
    IF temp_pair_idx >= row_size
    THEN IF row_size = 0
         THEN <<row + 1, row + 2 + temp_pair_idx>>
         ELSE RowWalk(temp_pair_idx - row_size, row + 1, row_size - 1)
    ELSE <<row, row + 1 + temp_pair_idx>>

PairOfIndex(pair_idx) == RowWalk(pair_idx, 0, valid_symbols - 1)

\* lines 376-389: whether the pair gets an overall score and a row
HasOverall(pair) == pair[1] \notin flat_symbols /\ pair[2] \notin flat_symbols

\* lines 309-311 and 433-435: return at once or launch the workers
PoolStart ==
    /\ pool_pc = "start"
    /\ IF valid_symbols < 2
       THEN pool_pc' = "returned" /\ workers' = workers
       ELSE /\ pool_pc' = "wait"
            /\ workers' = [w \in 1..num_threads |-> WorkerStart]
    /\ UNCHANGED <<valid_symbols, flat_symbols, num_threads, current_pair,
                   completed_pairs, results>>

\* lines 343-346: current_pair.fetch_add(BATCH_SIZE) and the test
WorkerClaim(w) ==
    /\ pool_pc = "wait"
    /\ workers[w].pc = "claim"
    /\ current_pair' = current_pair + BATCH_SIZE
    /\ workers' = [workers EXCEPT ![w] =
          IF current_pair >= total_pairs
          THEN [@ EXCEPT !.pc = "merge", !.batch_start = current_pair]
          ELSE [@ EXCEPT !.pc = "batch",
                         !.batch_start = current_pair,
                         !.batch_end = Min(current_pair + BATCH_SIZE, total_pairs),
                         !.pair_idx = current_pair]]
    /\ UNCHANGED <<pool_pc, valid_symbols, flat_symbols, num_threads,
                   completed_pairs, results>>

\* lines 349-393: one pair of the batch
WorkerPair(w) ==
    /\ pool_pc = "wait"
    /\ workers[w].pc = "batch"
    /\ workers[w].pair_idx < workers[w].batch_end
    /\ \E pair \in {PairOfIndex(workers[w].pair_idx)} :
          workers' = [workers EXCEPT ![w] =
              [@ EXCEPT !.local_results =
                            IF HasOverall(pair)
                            THEN Append(@, [symbol1 |-> pair[1], symbol2 |-> pair[2]])
                            ELSE @,
                        !.local_completed = @ + 1,
                        !.evaluated = Append(@, workers[w].pair_idx),
                        !.pair_idx = @ + 1]]
    /\ UNCHANGED <<pool_pc, valid_symbols, flat_symbols, num_threads, current_pair,
                   completed_pairs, results>>

\* lines 396-398: the batch is done (the status report only prints)
WorkerBatchDone(w) ==
    /\ pool_pc = "wait"
    /\ workers[w].pc = "batch"
    /\ workers[w].pair_idx >= workers[w].batch_end
    /\ completed_pairs' = completed_pairs + workers[w].local_completed
    /\ workers' = [workers EXCEPT ![w] = [@ EXCEPT !.pc = "claim", !.local_completed = 0]]
    /\ UNCHANGED <<pool_pc, valid_symbols, flat_symbols, num_threads, current_pair,
                   results>>

\* lines 428-429: under results_mutex
WorkerMerge(w) ==
    /\ pool_pc = "wait"
    /\ workers[w].pc = "merge"
    /\ results' = results \o workers[w].local_results
    /\ workers' = [workers EXCEPT ![w] = [@ EXCEPT !.pc = "done"]]
    /\ UNCHANGED <<pool_pc, valid_symbols, flat_symbols, num_threads, current_pair,
                   completed_pairs>>

\* lines 438-455: every future is ready
PoolReturn ==
    /\ pool_pc = "wait"
    /\ \A w \in DOMAIN workers : workers[w].pc = "done"
    /\ pool_pc' = "returned"
    /\ UNCHANGED <<valid_symbols, flat_symbols, num_threads, current_pair,
                   completed_pairs, workers, results>>

PoolNext ==
    \/ PoolStart
    \/ \E w \in DOMAIN workers : WorkerClaim(w)
    \/ \E w \in DOMAIN workers : WorkerPair(w)
    \/ \E w \in DOMAIN workers : WorkerBatchDone(w)
    \/ \E w \in DOMAIN workers : WorkerMerge(w)
    \/ PoolReturn

PoolStep ==
    PoolNext /\ UNCHANGED <<mergeVars, snapVars, fillsVars, quoteVars, codecVars, corrVars,
                            impactVars, overallVars, cacheVars>>

PoolSpec == PoolInit /\ [][PoolStep]_vars

\* the threads are scheduled: a step that stays possible is taken
PoolLiveSpec == PoolInit /\ [][PoolStep]_vars /\ WF_vars(PoolStep)

\* ---------------------------------------- properties of the worker pool
PairIndexes == 0..(total_pairs - 1)
SymbolPairs == {<<a, b>> \in (0..(valid_symbols - 1)) \X (0..(valid_symbols - 1)) : a < b}
\* the linear indexes evaluated so far, over all workers
RECURSIVE EvaluatedBy(_)
EvaluatedBy(w) ==
    IF w = 0 THEN <<>> ELSE EvaluatedBy(w - 1) \o workers[w].evaluated
AllEvaluated == EvaluatedBy(Len(workers))
\* the rows pushed so far, merged or not
RECURSIVE RowsOfWorkers(_)
RowsOfWorkers(w) ==
    IF w = 0 THEN <<>>
    ELSE RowsOfWorkers(w - 1) \o
            (IF workers[w].pc = "done" THEN <<>> ELSE workers[w].local_results)
AllRows == results \o RowsOfWorkers(Len(workers))
ElementsOf(s) == {s[k] : k \in 1..Len(s)}

\* C38: for any number of workers and any interleaving, every linear pair
\* index below n(n-1)/2 is claimed and evaluated by one worker only, and by
\* one when the pool returns; the conversion maps those indexes one-to-one
\* onto the pairs i < j < n; a pair contributes at most one row; and all
\* workers terminate.
C38_EachPairOnce ==
    /\ [](\A done \in {AllEvaluated} : \A rows \in {AllRows} :
             /\ Cardinality(ElementsOf(done)) = Len(done)
             /\ ElementsOf(done) \subseteq PairIndexes
             /\ Cardinality(ElementsOf(rows)) = Len(rows)
             /\ pool_pc = "returned" =>
                   /\ \A w \in DOMAIN workers : workers[w].pc = "done"
                   /\ ElementsOf(done) = PairIndexes
                   /\ {<<results[k].symbol1, results[k].symbol2>> : k \in 1..Len(results)} =
                         {pair \in SymbolPairs : HasOverall(pair)})
    /\ [](pool_pc = "start" =>
             /\ \A idx \in PairIndexes : PairOfIndex(idx) \in SymbolPairs
             /\ \A idx, other \in PairIndexes :
                   idx # other => PairOfIndex(idx) # PairOfIndex(other)
             /\ Cardinality(SymbolPairs) = total_pairs)
    /\ <>(pool_pc = "returned")

\* the pool has returned: two workers have each evaluated a batch of the
\* 36 pairs of nine symbols, and the pairs of a flat symbol have no row
C38_Witness ==
    /\ pool_pc = "returned"
    /\ valid_symbols = 9
    /\ num_threads = 2
    /\ \A w \in DOMAIN workers : workers[w].evaluated # <<>>
    /\ flat_symbols # {}
    /\ Len(results) = 28

\* =========================================================================
\* Shared caches of the batch engine (correlation_generation.cpp,
\* file_exists_with_cache and read_file_mmap_cached)
\* =========================================================================
\* The threads of the validation and of the worker pool call the two
\* functions on the bar files of their symbols.  A thread of the model makes
\* up to MaxCalls calls, each on one of two paths.  A series is kept as the
\* path it was read from and its number of closing prices.
CACHE_LIMIT == 100000

CachePaths == {"bars_A", "bars_B"}

\* records in a bar file: no file (-1), an empty one, a short one, and the
\* sizes around the limit of the contents cache
FileSizes == {-1, 0, 10, CACHE_LIMIT - 1, CACHE_LIMIT, CACHE_LIMIT + 1}

NoPrices == [path |-> "", size |-> 0]
ReaderStart ==
    [pc |-> "idle", path |-> "", exists |-> FALSE, prices |-> NoPrices,
     returned |-> "none", calls |-> 0]
NoIo == [probes |-> 0, loads |-> 0, exists_stores |-> 0, data_stores |-> 0]

CacheInit ==
    /\ disk_files \in [CachePaths -> FileSizes]
    /\ file_exists_cache = <<>>
    /\ file_data_cache = <<>>
    /\ readers = [r \in 1..MaxReaders |-> ReaderStart]
    /\ io_log = [p \in CachePaths |-> NoIo]
    /\ MergeIdle
    /\ SnapIdle
    /\ FillsIdle
    /\ QuoteIdle
    /\ CodecIdle
    /\ CorrIdle
    /\ ImpactIdle
    /\ OverallIdle
    /\ PoolIdle

\* lines 136-142: the lookup of file_exists_with_cache, under file_exists_mutex
ExistsLookup(r, p) ==
    /\ readers[r].pc = "idle"
    /\ readers[r].calls < MaxCalls
    /\ readers' = [readers EXCEPT ![r] =
          IF p \in DOMAIN file_exists_cache
          THEN [@ EXCEPT !.path = p, !.exists = file_exists_cache[p],
                         !.returned = "exists", !.calls = @ + 1]
          ELSE [@ EXCEPT !.path = p, !.pc = "exists_probe"]]
    /\ UNCHANGED <<disk_files, file_exists_cache, file_data_cache, io_log>>

\* line 144: fs::exists(path) && fs::file_size(path) > 0, no lock held
ExistsProbe(r) ==
    /\ readers[r].pc = "exists_probe"
    /\ readers' = [readers EXCEPT ![r] =
          [@ EXCEPT !.exists = disk_files[readers[r].path] > 0, !.pc = "exists_store"]]
    /\ io_log' = [io_log EXCEPT ![readers[r].path].probes = @ + 1]
    /\ UNCHANGED <<disk_files, file_exists_cache, file_data_cache>>

\* lines 146-151: file_exists_cache[path] = exists, under file_exists_mutex
ExistsStore(r) ==
    /\ readers[r].pc = "exists_store"
    /\ file_exists_cache' =
          [p \in DOMAIN file_exists_cache \cup {readers[r].path} |->
              IF p = readers[r].path THEN readers[r].exists ELSE file_exists_cache[p]]
    /\ readers' = [readers EXCEPT ![r] =
          [@ EXCEPT !.pc = "idle", !.returned = "exists", !.calls = @ + 1]]
    /\ io_log' = [io_log EXCEPT ![readers[r].path].exists_stores = @ + 1]
    /\ UNCHANGED <<disk_files, file_data_cache>>

\* lines 186-192: the lookup of read_file_mmap_cached, under file_cache_mutex
ReadLookup(r, p) ==
    /\ readers[r].pc = "idle"
    /\ readers[r].calls < MaxCalls
    /\ readers' = [readers EXCEPT ![r] =
          IF p \in DOMAIN file_data_cache
          THEN [@ EXCEPT !.path = p, !.prices = file_data_cache[p],
                         !.returned = "prices", !.calls = @ + 1]
          ELSE [@ EXCEPT !.path = p, !.pc = "read_load"]]
    /\ UNCHANGED <<disk_files, file_exists_cache, file_data_cache, io_log>>

\* lines 194-232: open, fstat, mmap and the sweep over the records, no lock
\* held; without a file or with an empty one the empty vector is returned
ReadLoad(r) ==
    /\ readers[r].pc = "read_load"
    /\ IF disk_files[readers[r].path] <= 0
       THEN /\ readers' = [readers EXCEPT ![r] =
                  [@ EXCEPT !.prices = NoPrices, !.pc = "idle",
                            !.returned = "prices", !.calls = @ + 1]]
            /\ io_log' = io_log
       ELSE /\ readers' = [readers EXCEPT ![r] =
                  [@ EXCEPT !.prices = [path |-> readers[r].path,
                                        size |-> disk_files[readers[r].path]],
                            !.pc = "read_store"]]
            /\ io_log' = [io_log EXCEPT ![readers[r].path].loads = @ + 1]
    /\ UNCHANGED <<disk_files, file_exists_cache, file_data_cache>>

\* line 238: if (prices.size() < 100000)
Cacheable(prices) == prices.size < CACHE_LIMIT

\* lines 234-243: the store, under file_cache_mutex, and the return
ReadStore(r) ==
    /\ readers[r].pc = "read_store"
    /\ IF Cacheable(readers[r].prices)
       THEN /\ file_data_cache' =
                  [p \in DOMAIN file_data_cache \cup {readers[r].path} |->
                      IF p = readers[r].path THEN readers[r].prices
                      ELSE file_data_cache[p]]
            /\ io_log' = [io_log EXCEPT ![readers[r].path].data_stores = @ + 1]
       ELSE UNCHANGED <<file_data_cache, io_log>>
    /\ readers' = [readers EXCEPT ![r] =
          [@ EXCEPT !.pc = "idle", !.returned = "prices", !.calls = @ + 1]]
    /\ UNCHANGED <<disk_files, file_exists_cache>>

CacheNext ==
    \/ \E r \in DOMAIN readers : \E p \in CachePaths : ExistsLookup(r, p)
    \/ \E r \in DOMAIN readers : ExistsProbe(r)
    \/ \E r \in DOMAIN readers : ExistsStore(r)
    \/ \E r \in DOMAIN readers : \E p \in CachePaths : ReadLookup(r, p)
    \/ \E r \in DOMAIN readers : ReadLoad(r)
    \/ \E r \in DOMAIN readers : ReadStore(r)

CacheSpec ==
    CacheInit /\ [][CacheNext /\ UNCHANGED <<mergeVars, snapVars, fillsVars, quoteVars,
                                codecVars, corrVars, impactVars, overallVars, poolVars>>]_vars

\* ------------------------------------------- properties of the caches
\* C39: the contents cache never holds a series of more than 100 000
\* elements, and a series of at most 100 000 elements (one of exactly
\* 100 000 included) that a thread has read is in the cache when the read
\* returns.
C39_CacheHoldsUpToLimit ==
    /\ \A p \in DOMAIN file_data_cache : file_data_cache[p].size <= CACHE_LIMIT
    /\ \A r \in DOMAIN readers :
          (/\ readers[r].pc = "idle"
           /\ readers[r].returned = "prices"
           /\ readers[r].prices.size >= 1
           /\ readers[r].prices.size <= CACHE_LIMIT) =>
              readers[r].path \in DOMAIN file_data_cache

\* C40: with several threads asking for the same path, a file that fits the
\* cache is probed for existence at most once, loaded from disk at most once
\* and stored in each cache at most once.
C40_LoadedAndStoredOnce ==
    \A p \in CachePaths :
        (disk_files[p] >= 1 /\ disk_files[p] < CACHE_LIMIT) =>
            /\ io_log[p].probes <= 1
            /\ io_log[p].exists_stores <= 1
            /\ io_log[p].loads <= 1
            /\ io_log[p].data_stores <= 1

Init ==
    MergeInit /\ SnapIdle /\ FillsIdle /\ QuoteIdle /\ CodecIdle /\ CorrIdle /\ ImpactIdle
        /\ OverallIdle /\ PoolIdle /\ CacheIdle

Next ==
    MergeNext /\ UNCHANGED <<snapVars, fillsVars, quoteVars, codecVars, corrVars, impactVars,
                                overallVars, poolVars, cacheVars>>

Spec == Init /\ [][Next]_vars

SnapSpec ==
    SnapInit /\ [][SnapNext /\ UNCHANGED <<mergeVars, fillsVars, quoteVars, codecVars, corrVars,
                                impactVars,
                                overallVars, poolVars, cacheVars>>]_vars

FillsSpec ==
    FillsInit /\ [][FillsNext /\ UNCHANGED <<mergeVars, snapVars, quoteVars, codecVars, corrVars,
                                impactVars,
                                overallVars, poolVars, cacheVars>>]_vars

QuoteSpec ==
    QuoteInit /\ [][QuoteNext /\ UNCHANGED <<mergeVars, snapVars, fillsVars, codecVars, corrVars,
                                impactVars,
                                overallVars, poolVars, cacheVars>>]_vars

CodecSpec ==
    CodecInit /\ [][CodecNext /\ UNCHANGED <<mergeVars, snapVars, fillsVars, quoteVars, corrVars,
                                impactVars,
                                overallVars, poolVars, cacheVars>>]_vars

\* ----------------------------------- the merger or the snapshot builder runs
MergeOrSnapInit == Init \/ SnapInit

MergeOrSnapNext ==
    \/ Next
    \/ SnapNext /\ UNCHANGED <<mergeVars, fillsVars, quoteVars, codecVars, corrVars, impactVars,
                                overallVars, poolVars, cacheVars>>

MergeOrSnapSpec == MergeOrSnapInit /\ [][MergeOrSnapNext]_vars

\* the inputs of the merger that end with a partial record
TailedVenues == {v \in SurvivingVenues : files[v].tail}

\* the merger has finished over inputs of which one ends with a partial record
MergedOverTail ==
    /\ pc = "done"
    /\ merged_file.state # "blocked"
    /\ TailedVenues # {}
    /\ SurvivingRecords # {}

\* the read of the snapshot builder meets a partial entry
SnapReadsPartialEntry == snap_pc = "loop" /\ entry_buffer' = PartialEntry

\* C27: an input that ends with a partial record stops being decoded without
\* a failure: the merger returns the path of a file that holds every complete
\* record of every input and nothing else, the snapshot builder exits with 0
\* and the partial entry changes neither the book nor the snapshots; both
\* patch the header with the count of what was written.
C27_TruncatedTailStopsInput ==
    /\ [](MergedOverTail =>
            /\ result = "path"
            /\ {MergedRecs[k] : k \in MergedIdx} = ExpectedEntries
            /\ Len(MergedRecs) = Cardinality(ExpectedEntries)
            /\ merged_file.state = "closed"
            /\ merged_file.header.count = Len(MergedRecs))
    /\ [][SnapReadsPartialEntry =>
            /\ exit_code' = 0
            /\ snap_pc' = "done"
            /\ Snapshots' = Snapshots
            /\ latest_venue_quotes' = latest_venue_quotes
            /\ total_input_records_read' = total_input_records_read
            /\ f_out'.state = "closed"
            /\ f_out'.header.count = Len(Snapshots)]_vars

\* two inputs, the first with one complete record and a partial one behind
\* it, the second with two records: all three are merged and counted
C27_Witness ==
    /\ MergedOverTail
    /\ files[1].status = "ok"
    /\ files[1].tail
    /\ Len(files[1].recs) = 1
    /\ Len(files[2].recs) = 2
    /\ merged_file.header.count = 3

\* ------------------------------- the merger writing to a device without room
DiskFullInit ==
    /\ MergeInputs
    /\ merged_file \in {NoFile, BlockedFile, FullFile}
    /\ SnapIdle
    /\ FillsIdle
    /\ QuoteIdle
    /\ CodecIdle
    /\ CorrIdle
    /\ ImpactIdle
    /\ OverallIdle
    /\ PoolIdle
    /\ CacheIdle

DiskFullSpec == DiskFullInit /\ [][Next]_vars

\* C28: when a write to the output fails while records are streamed, the
\* task that produces the file ends in a failure its caller sees (here: the
\* merge returns no path).
C28_WriteFailureSurfaced ==
    (pc = "done" /\ merged_file.state = "failed") => result # "path"

\* ------------------------------------------- the merger, scheduled fairly
\* The function runs on one thread from its call to its return: a step that
\* is possible is eventually taken.
MergeLiveSpec == Init /\ [][Next]_vars /\ WF_vars(Next)

\* the 24 header bytes as written by line 264
HeaderIsZero(header) ==
    /\ header.feed_id = 0
    /\ header.dateint = 0
    /\ header.count = 0
    /\ header.symbol_idx = 0

\* C33: the header of the merged output is zero from the creation of the
\* file until every input is exhausted; the merge loop terminates; the
\* final header is written once, in the step that follows the last record,
\* and nothing is written after it.
C33_HeaderProtocol ==
    /\ [](pc = "merge" => merged_file.state = "open" /\ HeaderIsZero(merged_file.header))
    /\ [][merged_file'.header # merged_file.header =>
            \/ /\ merged_file.state = "absent"
               /\ merged_file'.state = "open"
               /\ HeaderIsZero(merged_file'.header)
               /\ merged_file'.recs = <<>>
            \/ /\ HeaderIsZero(merged_file.header)
               /\ min_heap = {}
               /\ merged_file'.state = "closed"
               /\ merged_file'.recs = merged_file.recs
               /\ merged_file'.header.count = Len(merged_file.recs)
               /\ Len(merged_file.recs) = Cardinality(SurvivingRecords)]_vars
    /\ [][merged_file.state = "closed" => merged_file' = merged_file]_vars
    /\ <>(pc = "done")

\* a finished merge of three records: the placeholder has been replaced
C33_Witness ==
    /\ MergeFinished
    /\ merged_file.state = "closed"
    /\ Len(MergedRecs) = 3
    /\ merged_file.header.count = 3
    /\ Cardinality(VenuesMerged) >= 2

\* ------------- the snapshot builder or the trade-bar aggregator runs again
\* The output path of the run may hold the file of an earlier run.
RerunInit ==
    \/ SnapInitOver({NoSnapFile, BlockedSnapFile, ExistingSnapFile})
    \/ FillsInitOver({NoBarFile, ExistingBarFile})

RerunNext ==
    \/ SnapNext /\ UNCHANGED <<mergeVars, fillsVars, quoteVars, codecVars, corrVars, impactVars,
                                overallVars, poolVars, cacheVars>>
    \/ FillsNext /\ UNCHANGED <<mergeVars, snapVars, quoteVars, codecVars, corrVars, impactVars,
                                overallVars, poolVars, cacheVars>>

RerunSpec == RerunInit /\ [][RerunNext]_vars

\* C36: when the input holds fewer than 24 header bytes, the snapshot
\* builder and the trade-bar aggregator end without creating or truncating
\* the output file: what the output path held before the run is unchanged.
C36_ShortHeaderLeavesOutput ==
    [][/\ (snap_pc = "start" /\ f_in = "shorthdr") => f_out' = f_out
       /\ (fills_pc = "start" /\ input_file.state = "shorthdr") =>
              output_file' = output_file]_vars

====
